---- MODULE Spec2Model ----
(***************************************************************************)
(* Transactional inventory / ledger core of the AgriVet retail system:     *)
(* the API handlers under src/pages/api that read and mutate inventory      *)
(* batches, the stock log, the account ledger and the cached balances of   *)
(* customers and suppliers through Prisma on MySQL/MariaDB.                 *)
(*                                                                         *)
(* Each handler is a pure operator from the database before the request    *)
(* to the handler's outcome; an action applies one handler to the tables.  *)
(* Money is counted in whole currency units.                               *)
(***************************************************************************)
EXTENDS Integers, Sequences, FiniteSets, TLC

\* ---------------------------------------------------------------- bounds
\* Largest stock of a seeded inventory batch.
MaxStock == 2
\* Largest quantity a request carries.
MaxQty == 3
\* Largest number of line items of one request.
MaxItems == 2
\* Number of requests handled in one run of Spec.
MaxOps == 2

\* ------------------------------------------------------------ seed data
\* JavaScript null / undefined / 0 of an optional id, date or amount.
NULL == 0

\* The product catalogue (read-only for the handlers modelled here).
products ==
  << [unit_price |-> 50, quantity_per_case |-> NULL],
     [unit_price |-> 20, quantity_per_case |-> 2] >>

ProductIds == DOMAIN products
CustomerIds == {1}
SupplierIds == {1}
\* Ids that name no row.
UnknownProduct == Len(products) + 1
UnknownCustomer == Cardinality(CustomerIds) + 1
\* Expiration dates, as day numbers.
Dates == {1, 2, 3}

\* The storage engine's row order where the query states none (findFirst
\* without orderBy, ties of an ORDER BY): by primary key, either way.
RowOrders == {"pk_asc", "pk_desc"}

VARIABLES
  inventory,            \* table inventory: Seq of batches, inventory_id = index
  stock_log,            \* table stock_log (append-only)
  account_ledger,       \* table account_ledger (append-only)
  customers,            \* customer_id -> credit_balance
  suppliers,            \* supplier_id -> payable_balance
  sales,                \* table sales with its sale_details, sale_id = index
  supply,               \* table supply with its supply_details, supply_id = index
  purchase_orders,      \* table purchase_orders with details, po_id = index
  agrivet_transactions, \* table agrivet_transactions
  pre,                  \* the database before the last handled request
  last,                 \* the last handled request and its outcome
  prev,                 \* pre and last as they were before the last request
  nops,                 \* number of requests handled so far
  tx                    \* the open interactive transactions (concurrent runs)

tables ==
  << inventory, stock_log, account_ledger, customers, suppliers, sales,
     supply, purchase_orders, agrivet_transactions >>
vars == << inventory, stock_log, account_ledger, customers, suppliers, sales,
           supply, purchase_orders, agrivet_transactions, pre, last, prev, nops,
           tx >>

\* The database as one value (what a transaction reads and writes).
DB ==
  [ inventory |-> inventory, stock_log |-> stock_log,
    account_ledger |-> account_ledger, customers |-> customers,
    suppliers |-> suppliers, sales |-> sales, supply |-> supply,
    purchase_orders |-> purchase_orders,
    agrivet_transactions |-> agrivet_transactions ]

\* ------------------------------------------------------------- helpers
Min(a, b) == IF a < b THEN a ELSE b
Max(a, b) == IF a > b THEN a ELSE b

RECURSIVE SumSeq(_, _)
\* reduce((sum, x) => sum + x, 0) over the first k elements of a sequence
SumSeq(s, k) == IF k = 0 THEN 0 ELSE SumSeq(s, k - 1) + s[k]

\* Total on-hand of a product: sum of current_stock over its active batches.
totalOnHand(inv, productId) ==
  SumSeq([i \in 1..Len(inv) |->
            IF inv[i].product_id = productId /\ inv[i].is_active
            THEN inv[i].current_stock ELSE 0], Len(inv))

\* ---------------------------------------------------- prisma.$transaction
\* The outcome of a transaction callback: ok, or the error thrown, and the
\* database as the callback left it.
Ok(d) == [ok |-> TRUE, error |-> "", db |-> d]
Throw(e, d) == [ok |-> FALSE, error |-> e, db |-> d]

\* Writes made directly, outside any transaction: they stay when a later
\* step throws.
TransactionNoRollback(d, out) == out

\* prisma.$transaction(async (tx) => ...): commits the callback's writes when
\* it returns and rolls all of them back when it throws.
Transaction(d, out) == IF out.ok THEN out ELSE [out EXCEPT !.db = d]

\* ------------------------------------------------- FIFO batch selection
\* ORDER BY expiration_date DESC (latest expiration first).
ExpirationAfter(inv, ro, i, j) ==
  LET ei == inv[i].expiration_date
      ej == inv[j].expiration_date
  IN  \/ ei > ej
      \/ ei = ej /\ (IF ro = "pk_asc" THEN i < j ELSE i > j)

\* ORDER BY expiration_date ASC on MySQL/MariaDB: NULL sorts first; rows of
\* equal date come in the engine's row order.
ExpirationBefore(inv, ro, i, j) ==
  LET ei == inv[i].expiration_date
      ej == inv[j].expiration_date
  IN  \/ ei < ej
      \/ ei = ej /\ (IF ro = "pk_asc" THEN i < j ELSE i > j)

RECURSIVE OrderByExpirationAsc(_, _, _)
OrderByExpirationAsc(inv, ids, ro) ==
  IF ids = {} THEN << >>
  ELSE LET first == CHOOSE i \in ids :
                      \A j \in ids \ {i} : ExpirationBefore(inv, ro, i, j)
       IN  << [inventory_id |-> first,
               current_stock |-> inv[first].current_stock] >>
           \o OrderByExpirationAsc(inv, ids \ {first}, ro)

\* The same read without the is_active filter.
anyInventory(inv, productId, ro) ==
  OrderByExpirationAsc(inv,
    { i \in 1..Len(inv) : /\ inv[i].product_id = productId
                          /\ inv[i].current_stock > 0 }, ro)

\* products.findUnique({ include: { inventory: { where: { is_active: true,
\* current_stock: { gt: 0 } }, orderBy: { expiration_date: 'asc' } } } }):
\* the batches as read, each with the stock it had when read.
productInventory(inv, productId, ro) ==
  OrderByExpirationAsc(inv,
    { i \in 1..Len(inv) : /\ inv[i].product_id = productId
                          /\ inv[i].is_active
                          /\ inv[i].current_stock > 0 }, ro)

\* inventory.findFirst({ where: { product_id, is_active: true } }): the id of
\* the first matching row in the engine's row order, NULL when there is none.
findFirstInventory(inv, productId, ro) ==
  LET ids == { i \in 1..Len(inv) : inv[i].product_id = productId
                                   /\ inv[i].is_active }
  IN  IF ids = {} THEN NULL
      ELSE IF ro = "pk_asc" THEN CHOOSE i \in ids : \A j \in ids : i <= j
      ELSE CHOOSE i \in ids : \A j \in ids : i >= j

\* A new inventory row (schema defaults: no batch, no expiration, active).
NewBatch(productId, stock, expiration) ==
  [ product_id |-> productId, current_stock |-> stock,
    expiration_date |-> expiration, is_active |-> TRUE ]

\* What the deduction loop takes from the k-th batch read.
deductQty(batches, k, remainingQty) ==
  Min(remainingQty, batches[k].current_stock)

\* A loop that writes nothing.
DeductNothing(inv, batches, k, remainingQty) == inv

RECURSIVE DeductFifo(_, _, _, _)
\* The deduction loop over the batches read: each batch is written the stock
\* read minus what is taken from it, until nothing remains to take.
DeductFifo(inv, batches, k, remainingQty) ==
  IF k > Len(batches) \/ remainingQty <= 0 THEN inv
  ELSE DeductFifo(
         [inv EXCEPT ![batches[k].inventory_id].current_stock =
            batches[k].current_stock - deductQty(batches, k, remainingQty)],
         batches, k + 1, remainingQty - deductQty(batches, k, remainingQty))

\* ------------------------------------------------------------ createSale
\* POST /api/sales.  req = [customerId, items, discount, amountPaid], each
\* item [productId, quantity, unitPrice]; an absent customerId, unitPrice or
\* amountPaid is NULL, which the handler's || treats like 0.

\* One line item against the inventory the transaction sees: the product
\* lookup, the stock check and the sale detail.
checkItem(inv, item, ro) ==
  IF item.productId \notin ProductIds
  THEN [ok |-> FALSE, error |-> "ProductNotFound", batches |-> << >>,
        detail |-> << >>]
  ELSE
    LET batches == productInventory(inv, item.productId, ro)
        totalStock ==
          SumSeq([i \in 1..Len(batches) |-> batches[i].current_stock],
                 Len(batches))
        unitPrice == IF item.unitPrice # NULL THEN item.unitPrice
                     ELSE products[item.productId].unit_price
    IN  IF totalStock < item.quantity
        THEN [ok |-> FALSE, error |-> "InsufficientStock",
              batches |-> batches, detail |-> << >>]
        ELSE [ok |-> TRUE, error |-> "", batches |-> batches,
              detail |-> [product_id |-> item.productId,
                          quantity |-> item.quantity,
                          unit_price |-> unitPrice]]

RECURSIVE saleItems(_, _, _, _, _, _)
\* for (const item of items) { ... }: the totals and the FIFO deduction.
saleItems(d, items, k, subtotal, saleDetails, ro) ==
  IF k > Len(items)
  THEN [ok |-> TRUE, error |-> "", db |-> d, subtotal |-> subtotal,
        saleDetails |-> saleDetails]
  ELSE
    LET chk == checkItem(d.inventory, items[k], ro) IN
    IF ~chk.ok
    THEN [ok |-> FALSE, error |-> chk.error, db |-> d, subtotal |-> subtotal,
          saleDetails |-> saleDetails]
    ELSE saleItems(
           [d EXCEPT !.inventory =
              DeductFifo(d.inventory, chk.batches, 1, items[k].quantity)],
           items, k + 1,
           subtotal + chk.detail.quantity * chk.detail.unit_price,
           Append(saleDetails, chk.detail), ro)

\* Sale status from the amount paid and the total.
saleStatusOf(paidAmount, totalAmount) ==
  IF paidAmount < totalAmount
  THEN (IF paidAmount > 0 THEN "PARTIAL" ELSE "UNPAID")
  ELSE "PAID"

\* One SALE stock_log row per sale detail, quantity = -detail.quantity.
saleStockLogs(saleDetails) ==
  [i \in 1..Len(saleDetails) |->
     [product_id |-> saleDetails[i].product_id, change_type |-> "SALE",
      quantity |-> 0 - saleDetails[i].quantity]]

\* After the loop: the sale row with its details, the stock log, the
\* customer's credit_balance and ledger debit, the transaction record.
finishSale(d, req, subtotal, saleDetails) ==
  LET totalAmount == subtotal
      paidAmount == IF req.amountPaid # NULL THEN req.amountPaid
                    ELSE totalAmount
      saleStatus == saleStatusOf(paidAmount, totalAmount)
  IN
  \* sales.create: customer_id references customers
  IF req.customerId # NULL /\ req.customerId \notin CustomerIds
  THEN Throw("ForeignKey", d)
  ELSE
    LET sale == [customer_id |-> req.customerId,
                 total_amount |-> totalAmount, amount_paid |-> paidAmount,
                 sale_status |-> saleStatus, is_active |-> TRUE,
                 sale_details |-> saleDetails]
        sale_id == Len(d.sales) + 1
        d1 == [d EXCEPT !.sales = Append(@, sale),
                        !.stock_log = @ \o saleStockLogs(saleDetails)]
        creditAmount == totalAmount - paidAmount
        d2 == IF req.customerId # NULL /\ saleStatus # "PAID"
              THEN [d1 EXCEPT
                      !.customers[req.customerId] = @ + creditAmount,
                      !.account_ledger = Append(@,
                         [account_type |-> "customer",
                          account_id |-> req.customerId,
                          reference_type |-> "SALE",
                          reference_id |-> sale_id,
                          debit |-> creditAmount, credit |-> 0])]
              ELSE d1
    IN  Ok([d2 EXCEPT !.agrivet_transactions = Append(@,
              [transaction_type |-> "SALE", ref_id |-> sale_id,
               amount |-> totalAmount])])

\* The callback given to prisma.$transaction by createSale.
createSaleTx(d, req, ro) ==
  LET it == saleItems(d, req.items, 1, 0, << >>, ro) IN
  IF ~it.ok THEN Throw(it.error, it.db)
  ELSE finishSale(it.db, req, it.subtotal, it.saleDetails)

createSale(d, req, ro) ==
  IF Len(req.items) = 0 THEN Throw("ValidationError", d)
  ELSE Transaction(d, createSaleTx(d, req, ro))

\* ----------------------------------------------------------- convertBulk
\* POST /api/inventory/convert.  req = [sourceProductId, targetProductId,
\* sourceQuantity].
conversionUnlogged(req, targetQuantityToAdd) == << >>

conversionLogs(req, targetQuantityToAdd) ==
  << [product_id |-> req.sourceProductId, change_type |-> "CONVERSION",
      quantity |-> 0 - req.sourceQuantity],
     [product_id |-> req.targetProductId, change_type |-> "CONVERSION",
      quantity |-> targetQuantityToAdd] >>

\* The callback given to prisma.$transaction by convertBulk.
convertBulkTx(d, req, ro) ==
  IF req.sourceProductId \notin ProductIds
  THEN Throw("SourceProductNotFound", d)
  ELSE IF req.targetProductId \notin ProductIds
  THEN Throw("TargetProductNotFound", d)
  ELSE
    LET batches == productInventory(d.inventory, req.sourceProductId, ro)
        conversionRatio ==
          IF products[req.targetProductId].quantity_per_case # NULL
          THEN products[req.targetProductId].quantity_per_case ELSE 1
        totalSourceStock ==
          SumSeq([i \in 1..Len(batches) |-> batches[i].current_stock],
                 Len(batches))
    IN
    IF totalSourceStock < req.sourceQuantity
    THEN Throw("InsufficientStock", d)
    ELSE
      LET targetQuantityToAdd == req.sourceQuantity * conversionRatio
          inv2 == DeductFifo(d.inventory, batches, 1, req.sourceQuantity)
          targetInventory == findFirstInventory(inv2, req.targetProductId, ro)
          inv3 == IF targetInventory # NULL
                  THEN [inv2 EXCEPT ![targetInventory].current_stock =
                                      @ + targetQuantityToAdd]
                  ELSE Append(inv2, NewBatch(req.targetProductId,
                                             targetQuantityToAdd, NULL))
      IN  Ok([d EXCEPT !.inventory = inv3,
                       !.stock_log = @ \o conversionLogs(req,
                                                         targetQuantityToAdd)])

convertBulk(d, req, ro) ==
  IF \/ req.sourceProductId = NULL
     \/ req.targetProductId = NULL
     \/ req.sourceQuantity = 0
  THEN Throw("ValidationError", d)
  ELSE Transaction(d, convertBulkTx(d, req, ro))

\* ------------------------------------------------------------- stock_log
\* A table holding only the new row.
stockLogReplace(log, row) == << row >>

\* tx.stock_log.create({ data: row }): one more row, the others untouched.
stockLogCreate(log, row) == Append(log, row)

\* -------------------------------------------------------------- voidSale
\* DELETE /api/sales/[id].  req = [id].
RECURSIVE restoreDetails(_, _, _, _)
\* for (const detail of sale.sale_details): stock back into the first active
\* batch of the product (or a new batch), and one RETURN stock_log row.
restoreDetails(d, details, k, ro) ==
  IF k > Len(details) THEN d
  ELSE
    LET detail == details[k]
        inv == findFirstInventory(d.inventory, detail.product_id, ro)
        inv2 == IF inv # NULL
                THEN [d.inventory EXCEPT ![inv].current_stock =
                                           @ + detail.quantity]
                ELSE Append(d.inventory,
                            NewBatch(detail.product_id, detail.quantity, NULL))
        log == [product_id |-> detail.product_id, change_type |-> "RETURN",
                quantity |-> detail.quantity]
    IN  restoreDetails([d EXCEPT !.inventory = inv2,
                                 !.stock_log = stockLogCreate(@, log)],
                       details, k + 1, ro)

\* The sale's row removed from the table.
hardDelete(rows, id) ==
  [i \in 1..(Len(rows) - 1) |-> IF i < id THEN rows[i] ELSE rows[i + 1]]

\* tx.sales.update({ where: { sale_id }, data: { is_active: false } })
softDelete(rows, id) == [rows EXCEPT ![id].is_active = FALSE]

\* A test that lets every sale through.
neverVoided(sale) == FALSE

\* if (!sale.is_active) throw new Error('Sale is already voided')
alreadyVoided(sale) == ~sale.is_active

\* What the transaction writes for the sale it read: the stock put back,
\* the credit taken off the customer's balance, the sale marked inactive.
voidSaleWrites(d, req, sale, ro) ==
  LET d1 == restoreDetails(d, sale.sale_details, 1, ro)
      creditAmount == sale.total_amount - sale.amount_paid
      d2 == IF sale.customer_id # NULL /\ sale.sale_status # "PAID"
            THEN [d1 EXCEPT
                    !.customers[sale.customer_id] = @ - creditAmount,
                    !.account_ledger = Append(@,
                       [account_type |-> "customer",
                        account_id |-> sale.customer_id,
                        reference_type |-> "VOID_SALE",
                        reference_id |-> req.id,
                        debit |-> 0, credit |-> creditAmount])]
            ELSE d1
  IN  [d2 EXCEPT !.sales = softDelete(@, req.id)]

voidSaleTx(d, req, ro) ==
  IF req.id \notin DOMAIN d.sales THEN Throw("SaleNotFound", d)
  ELSE
    LET sale == d.sales[req.id] IN
    IF alreadyVoided(sale) THEN Throw("AlreadyVoided", d)
    ELSE Ok(voidSaleWrites(d, req, sale, ro))

voidSale(d, req, ro) == Transaction(d, voidSaleTx(d, req, ro))

\* ---------------------------------------------------------- createSupply
\* POST /api/supply.  req = [supplierId, items], each item
\* [productId, quantity, unitCost].
RECURSIVE supplyTotal(_, _)
supplyTotal(items, k) ==
  IF k = 0 THEN 0
  ELSE supplyTotal(items, k - 1) + items[k].unitCost * items[k].quantity

RECURSIVE supplyItems(_, _, _, _, _)
\* for (const item of items): the detail row, the stock added to the first
\* active batch of the product (or a new batch), one IN stock_log row.
supplyItems(d, items, k, details, ro) ==
  IF k > Len(items)
  THEN [ok |-> TRUE, error |-> "", db |-> d, details |-> details]
  ELSE
    LET item == items[k] IN
    \* supply_details.create: product_id references products
    IF item.productId \notin ProductIds
    THEN [ok |-> FALSE, error |-> "ForeignKey", db |-> d, details |-> details]
    ELSE
      LET existingInventory ==
            findFirstInventory(d.inventory, item.productId, ro)
          inv2 == IF existingInventory # NULL
                  THEN [d.inventory EXCEPT
                          ![existingInventory].current_stock =
                             d.inventory[existingInventory].current_stock
                               + item.quantity]
                  ELSE Append(d.inventory,
                              NewBatch(item.productId, item.quantity, NULL))
          log == [product_id |-> item.productId, change_type |-> "IN",
                  quantity |-> item.quantity]
          detail == [product_id |-> item.productId,
                     unit_quantity |-> item.quantity,
                     unit_cost |-> item.unitCost]
      IN  supplyItems([d EXCEPT !.inventory = inv2,
                                !.stock_log = Append(@, log)],
                      items, k + 1, Append(details, detail), ro)

createSupplyTx(d, req, total, ro) ==
  \* supply.create: supplier_id references suppliers
  IF req.supplierId \notin SupplierIds THEN Throw("ForeignKey", d)
  ELSE
    LET it == supplyItems(d, req.items, 1, << >>, ro) IN
    IF ~it.ok THEN Throw(it.error, it.db)
    ELSE Ok([it.db EXCEPT
               !.supply = Append(@, [supplier_id |-> req.supplierId,
                                     total |-> total,
                                     supply_details |-> it.details,
                                     present |-> TRUE]),
               !.suppliers[req.supplierId] = @ + total])

createSupply(d, req, ro) ==
  IF req.supplierId = NULL \/ Len(req.items) = 0
  THEN Throw("ValidationError", d)
  ELSE Transaction(d, createSupplyTx(d, req,
                                     supplyTotal(req.items, Len(req.items)),
                                     ro))

\* ---------------------------------------------------------- deleteSupply
\* DELETE /api/supply/[id].  req = [id].  The supply is read before the
\* transaction starts.
RECURSIVE reverseDetails(_, _, _, _)
\* for (const detail of supply.supply_details): the first active batch of the
\* product loses the quantity, not below 0; one OUT stock_log row.
reverseDetails(d, details, k, ro) ==
  IF k > Len(details) THEN d
  ELSE
    LET detail == details[k]
        inv == findFirstInventory(d.inventory, detail.product_id, ro)
        inv2 == IF inv # NULL
                THEN [d.inventory EXCEPT ![inv].current_stock =
                        Max(0, d.inventory[inv].current_stock
                                 - detail.unit_quantity)]
                ELSE d.inventory
        log == [product_id |-> detail.product_id, change_type |-> "OUT",
                quantity |-> detail.unit_quantity]
    IN  reverseDetails([d EXCEPT !.inventory = inv2,
                                 !.stock_log = stockLogCreate(@, log)],
                       details, k + 1, ro)

deleteSupplyTx(d, id, found, ro) ==
  LET d1 == reverseDetails(d, found.supply_details, 1, ro)
      d2 == IF found.supplier_id # NULL
            THEN [d1 EXCEPT !.suppliers[found.supplier_id] = @ - found.total]
            ELSE d1
  IN  \* supply.delete of a row already deleted throws
      IF ~d.supply[id].present THEN Throw("RecordNotFound", d2)
      ELSE Ok([d2 EXCEPT !.supply[id].supply_details = << >>,
                         !.supply[id].present = FALSE])

deleteSupply(d, req, ro) ==
  IF req.id \notin DOMAIN d.supply \/ ~d.supply[req.id].present
  THEN Throw("SupplyNotFound", d)
  ELSE Transaction(d, deleteSupplyTx(d, req.id, d.supply[req.id], ro))

\* --------------------------------------------------- createPurchaseOrder
\* POST /api/purchase-orders.  req = [customerId, items, outstandingBalance],
\* each item [productId, quantity].
createPurchaseOrderTx(d, req) ==
  IF \E k \in 1..Len(req.items) : req.items[k].productId \notin ProductIds
  THEN Throw("ProductNotFound", d)
  \* purchase_orders.create: customer_id references customers
  ELSE IF req.customerId \notin CustomerIds THEN Throw("ForeignKey", d)
  ELSE
    LET po_id == Len(d.purchase_orders) + 1
        order == [customer_id |-> req.customerId, po_status |-> "PENDING",
                  outstanding_balance |-> req.outstandingBalance,
                  purchase_order_details |->
                    [k \in 1..Len(req.items) |->
                       [product_id |-> req.items[k].productId,
                        quantity |-> req.items[k].quantity]]]
    IN  Ok([d EXCEPT
              !.purchase_orders = Append(@, order),
              !.account_ledger = Append(@,
                 [account_type |-> "customer", account_id |-> req.customerId,
                  reference_type |-> "PURCHASE_ORDER", reference_id |-> po_id,
                  debit |-> req.outstandingBalance, credit |-> 0])])

createPurchaseOrder(d, req) ==
  IF req.customerId = NULL \/ Len(req.items) = 0
  THEN Throw("ValidationError", d)
  ELSE Transaction(d, createPurchaseOrderTx(d, req))

\* --------------------------------------------------- cancelPurchaseOrder
\* DELETE /api/purchase-orders/[id].  req = [id].
anyOrderCancellable(order) == FALSE

\* The one status cancelPurchaseOrder refuses.
orderReceived(order) == order.po_status = "RECEIVED"

\* What the transaction writes for the order it read: the reversal credit
\* and the status.
cancelWrites(d, req, order) ==
  [d EXCEPT
     !.account_ledger = Append(@,
        [account_type |-> "customer",
         account_id |-> order.customer_id,
         reference_type |-> "CANCELLED_PO", reference_id |-> req.id,
         debit |-> 0, credit |-> order.outstanding_balance]),
     !.purchase_orders[req.id].po_status = "CANCELLED"]

cancelPurchaseOrderTx(d, req) ==
  IF req.id \notin DOMAIN d.purchase_orders THEN Throw("OrderNotFound", d)
  ELSE
    LET order == d.purchase_orders[req.id] IN
    IF orderReceived(order) THEN Throw("OrderReceived", d)
    ELSE Ok(cancelWrites(d, req, order))

cancelPurchaseOrder(d, req) == Transaction(d, cancelPurchaseOrderTx(d, req))

\* ------------------------------------------------------- receiveDelivery
\* POST /api/purchase-orders/[id]/receive.  req = [id, items], each item
\* [poDetailId, quantity]; a detail is named by its position in its order.
\* No line of the receipt is taken in.
receiveNothing(d, order, items, k) == Ok(d)

RECURSIVE receiveItems(_, _, _, _)
receiveItems(d, order, items, k) ==
  IF k > Len(items) THEN Ok(d)
  ELSE
    LET item == items[k] IN
    IF item.poDetailId \notin DOMAIN order.purchase_order_details
    THEN Throw("OrderDetailNotFound", d)
    ELSE
      LET detail == order.purchase_order_details[item.poDetailId]
          receiveQty == IF item.quantity # NULL THEN item.quantity
                        ELSE detail.quantity
      IN
      IF receiveQty <= 0 THEN receiveItems(d, order, items, k + 1)
      ELSE receiveItems(
             [d EXCEPT
                !.inventory = Append(@, NewBatch(detail.product_id,
                                                 receiveQty, NULL)),
                !.stock_log = Append(@,
                   [product_id |-> detail.product_id,
                    change_type |-> "PURCHASE", quantity |-> receiveQty])],
             order, items, k + 1)

\* Every order is taken as receivable.
anyOrderReceivable(order) == FALSE

\* order.po_status === 'CANCELLED'
orderCancelled(order) == order.po_status = "CANCELLED"

\* What the transaction writes for the order it read: the batches and log
\* rows of the lines, then the status.
receiveWrites(d, req, order) ==
  LET it == receiveItems(d, order, req.items, 1) IN
  IF ~it.ok THEN it
  ELSE Ok([it.db EXCEPT !.purchase_orders[req.id].po_status = "RECEIVED"])

receiveDeliveryTx(d, req) ==
  IF req.id \notin DOMAIN d.purchase_orders THEN Throw("OrderNotFound", d)
  ELSE
    LET order == d.purchase_orders[req.id] IN
    IF orderCancelled(order) THEN Throw("OrderNotReceivable", d)
    ELSE receiveWrites(d, req, order)

receiveDelivery(d, req) ==
  IF Len(req.items) = 0 THEN Throw("ValidationError", d)
  ELSE Transaction(d, receiveDeliveryTx(d, req))

\* --------------------------------------------------------- recordPayment
\* POST /api/customers/[id]/payment.  req = [id, amount].
\* The amount as given, whatever the balance.
fullAmount(amount, currentBalance) == amount

\* paymentAmount = Math.min(parseFloat(amount), currentBalance)
paymentAmountOf(amount, currentBalance) == Min(amount, currentBalance)

recordCustomerPaymentTx(d, req) ==
  IF req.id \notin CustomerIds THEN Throw("CustomerNotFound", d)
  ELSE
    LET currentBalance == d.customers[req.id]
        paymentAmount == paymentAmountOf(req.amount, currentBalance)
        newBalance == currentBalance - paymentAmount
    IN  Ok([d EXCEPT
              !.customers[req.id] = newBalance,
              !.account_ledger = Append(@,
                 [account_type |-> "customer", account_id |-> req.id,
                  reference_type |-> "PAYMENT", reference_id |-> NULL,
                  debit |-> 0, credit |-> paymentAmount]),
              !.agrivet_transactions = Append(@,
                 [transaction_type |-> "PAYMENT", ref_id |-> NULL,
                  amount |-> paymentAmount])])

recordCustomerPayment(d, req) ==
  IF req.amount = NULL \/ req.amount <= 0 THEN Throw("ValidationError", d)
  ELSE Transaction(d, recordCustomerPaymentTx(d, req))

\* POST /api/suppliers/[id]/payment.  req = [id, amount].
recordSupplierPaymentTx(d, req) ==
  IF req.id \notin SupplierIds THEN Throw("SupplierNotFound", d)
  ELSE
    LET currentBalance == d.suppliers[req.id]
        paymentAmount == paymentAmountOf(req.amount, currentBalance)
        newBalance == currentBalance - paymentAmount
    IN  Ok([d EXCEPT
              !.suppliers[req.id] = newBalance,
              !.account_ledger = Append(@,
                 [account_type |-> "supplier", account_id |-> req.id,
                  reference_type |-> "PAYMENT", reference_id |-> NULL,
                  debit |-> 0, credit |-> paymentAmount])])

recordSupplierPayment(d, req) ==
  IF req.amount = NULL \/ req.amount <= 0 THEN Throw("ValidationError", d)
  ELSE Transaction(d, recordSupplierPaymentTx(d, req))

\* ---------------------------------------------------------- addInventory
\* POST /api/inventory.  req = [productId, quantity, expirationDate].
addInventoryTx(d, req) ==
  \* inventory.create: product_id references products
  IF req.productId \notin ProductIds THEN Throw("ForeignKey", d)
  ELSE Ok([d EXCEPT
             !.inventory = Append(@, NewBatch(req.productId, req.quantity,
                                              req.expirationDate)),
             !.stock_log = Append(@,
                [product_id |-> req.productId, change_type |-> "ADJUSTMENT",
                 quantity |-> req.quantity])])

addInventory(d, req) ==
  IF req.productId = NULL \/ req.quantity = 0
  THEN Throw("ValidationError", d)
  ELSE Transaction(d, addInventoryTx(d, req))

\* ----------------------------------------------------------- adjustStock
\* POST /api/inventory/adjust.  req = [inventoryId, productId,
\* adjustmentType, quantity, reason]; reason is TRUE when one is given.
Abs(x) == IF x < 0 THEN 0 - x ELSE x

adjustmentLog(productId, adjustmentQty) ==
  [product_id |-> productId, change_type |-> "ADJUSTMENT",
   quantity |-> adjustmentQty]

\* The batch gets current_stock + adjustmentQty, whatever the result.
adjustBatchUnchecked(d, id, adjustmentQty) ==
  Ok([d EXCEPT
        !.inventory[id].current_stock = @ + adjustmentQty,
        !.stock_log = Append(@,
           adjustmentLog(d.inventory[id].product_id, adjustmentQty))])

\* The batch named by id (active or not), or the first active batch of the
\* product, gets current_stock + adjustmentQty unless that is negative.
adjustBatch(d, id, adjustmentQty) ==
  LET newQuantity == d.inventory[id].current_stock + adjustmentQty IN
  IF newQuantity < 0 THEN Throw("NegativeStock", d)
  ELSE Ok([d EXCEPT
             !.inventory[id].current_stock = newQuantity,
             !.stock_log = Append(@,
                adjustmentLog(d.inventory[id].product_id, adjustmentQty))])

adjustStockTx(d, req, adjustmentQty, ro) ==
  IF req.inventoryId # NULL
  THEN IF req.inventoryId \notin DOMAIN d.inventory
       THEN Throw("InventoryNotFound", d)
       ELSE adjustBatch(d, req.inventoryId, adjustmentQty)
  ELSE
    LET inv == findFirstInventory(d.inventory, req.productId, ro) IN
    IF inv # NULL THEN adjustBatch(d, inv, adjustmentQty)
    ELSE IF adjustmentQty < 0 THEN Throw("NoInventoryRecord", d)
    ELSE IF req.productId \notin ProductIds THEN Throw("ProductNotFound", d)
    ELSE Ok([d EXCEPT
               !.inventory = Append(@, NewBatch(req.productId, adjustmentQty,
                                                NULL)),
               !.stock_log = Append(@,
                  adjustmentLog(req.productId, adjustmentQty))])

adjustStock(d, req, ro) ==
  IF req.quantity = 0 \/ ~req.reason THEN Throw("ValidationError", d)
  ELSE IF req.inventoryId = NULL /\ req.productId = NULL
  THEN Throw("ValidationError", d)
  ELSE Transaction(d,
         adjustStockTx(d, req,
                       IF req.adjustmentType = "DECREASE"
                       THEN 0 - Abs(req.quantity) ELSE Abs(req.quantity),
                       ro))

\* ------------------------------------------------------- updateInventory
\* PUT /api/inventory/[id].  req = [id, setStock, currentStock,
\* setExpiration, expirationDate]; setStock / setExpiration tell whether the
\* body carries the field.  The row is read before the transaction starts
\* and written back whole.
updateInventoryTx(d, req, existing) ==
  LET newStock == IF req.setStock THEN req.currentStock
                  ELSE existing.current_stock
      newDate == IF req.setExpiration THEN req.expirationDate
                 ELSE existing.expiration_date
      stockDiff == IF req.setStock
                   THEN req.currentStock - existing.current_stock ELSE 0
      changed == \/ req.setStock /\ req.currentStock # existing.current_stock
                 \/ req.setExpiration
                      /\ req.expirationDate # existing.expiration_date
      d1 == [d EXCEPT !.inventory[req.id].current_stock = newStock,
                      !.inventory[req.id].expiration_date = newDate]
  IN  IF changed
      THEN Ok([d1 EXCEPT !.stock_log = Append(@,
                 adjustmentLog(existing.product_id, stockDiff))])
      ELSE Ok(d1)

updateInventory(d, req) ==
  IF req.id \notin DOMAIN d.inventory THEN Throw("InventoryNotFound", d)
  ELSE IF req.setStock /\ req.currentStock < 0
  THEN Throw("ValidationError", d)
  ELSE Transaction(d, updateInventoryTx(d, req, d.inventory[req.id]))

\* ------------------------------------------------------- deleteInventory
\* DELETE /api/inventory/[id].  req = [id].  The row is read before the
\* transaction starts.
deleteInventoryTx(d, req, existing) ==
  Ok([d EXCEPT
        !.inventory[req.id].is_active = FALSE,
        !.stock_log = Append(@,
           adjustmentLog(existing.product_id, 0 - existing.current_stock))])

deleteInventory(d, req) ==
  IF req.id \notin DOMAIN d.inventory THEN Throw("InventoryNotFound", d)
  ELSE Transaction(d, deleteInventoryTx(d, req, d.inventory[req.id]))

\* ------------------------------------------------------------- requests
SeqsUpTo(S, n) == UNION { [1..k -> S] : k \in 1..n }

\* Line items: any product id and quantity; the lines of one request either
\* all leave the unit price to the catalogue or all state the price 40.
SaleLines ==
  [ productId : ProductIds \cup {UnknownProduct}, quantity : (0 - 1)..MaxQty ]

WithPrice(lines, u) ==
  [i \in DOMAIN lines |->
     [productId |-> lines[i].productId, quantity |-> lines[i].quantity,
      unitPrice |-> u]]

SaleRequest(c, l, u, dsc, a) ==
  [customerId |-> c, items |-> WithPrice(l, u), discount |-> dsc,
   amountPaid |-> a]

SaleCustomers == {NULL, UnknownCustomer} \cup CustomerIds
SaleLineLists == SeqsUpTo(SaleLines, MaxItems) \cup {<< >>}
SalePrices == {NULL, 40}
SaleDiscounts == {0, 10}
SaleAmountsPaid == {0 - 50, 0, 50, 150}

\* --------------------------------------------------------------- states
NoRequest == [op |-> "none", req |-> << >>, ok |-> TRUE, error |-> ""]

EmptyDB ==
  [ inventory |-> << >>, stock_log |-> << >>, account_ledger |-> << >>,
    customers |-> [c \in CustomerIds |-> 0],
    suppliers |-> [s \in SupplierIds |-> 0],
    sales |-> << >>, supply |-> << >>, purchase_orders |-> << >>,
    agrivet_transactions |-> << >> ]

\* The tables hold d, and no request was handled yet.
LoadDB(d) ==
  /\ inventory = d.inventory
  /\ stock_log = d.stock_log
  /\ account_ledger = d.account_ledger
  /\ customers = d.customers
  /\ suppliers = d.suppliers
  /\ sales = d.sales
  /\ supply = d.supply
  /\ purchase_orders = d.purchase_orders
  /\ agrivet_transactions = d.agrivet_transactions
  /\ pre = d
  /\ last = NoRequest
  /\ prev = [db |-> d, last |-> NoRequest]
  /\ nops = 0

\* ... and requests are handled one at a time.
StartFrom(d) == LoadDB(d) /\ tx = << >>

\* The handler's response is sent: the tables hold what it left.
Respond(op, req, out) ==
  /\ inventory' = out.db.inventory
  /\ stock_log' = out.db.stock_log
  /\ account_ledger' = out.db.account_ledger
  /\ customers' = out.db.customers
  /\ suppliers' = out.db.suppliers
  /\ sales' = out.db.sales
  /\ supply' = out.db.supply
  /\ purchase_orders' = out.db.purchase_orders
  /\ agrivet_transactions' = out.db.agrivet_transactions
  /\ pre' = DB
  /\ prev' = [db |-> pre, last |-> last]
  /\ last' = [op |-> op, req |-> req, ok |-> out.ok, error |-> out.error]
  /\ nops' = nops + 1
  /\ UNCHANGED tx

CreateSale(req, ro) == Respond("createSale", req, createSale(DB, req, ro))

\* ------------------------------------------- one sale on a seeded store
\* Product 1 in two dated batches (the later one received first), product 2
\* in one batch without expiration; nobody owes anything.
Seed ==
  [EmptyDB EXCEPT
     !.inventory = << NewBatch(1, MaxStock, 2), NewBatch(1, MaxStock, 1),
                      NewBatch(2, MaxStock, NULL) >>]

\* The same store with the earlier batch of product 1 retired and product 2
\* sold out.
SeedRetired ==
  [Seed EXCEPT !.inventory[2].is_active = FALSE,
               !.inventory[3].current_stock = 0]

SaleSeeds == {Seed, SeedRetired}

InitSale == \E d \in SaleSeeds : StartFrom(d)

OneSale ==
  /\ last.op = "none"
  /\ \E c \in SaleCustomers, l \in SaleLineLists, u \in SalePrices,
        dsc \in SaleDiscounts, a \in SaleAmountsPaid, ro \in RowOrders :
       CreateSale(SaleRequest(c, l, u, dsc, a), ro)

NextSale == OneSale

SpecSale == InitSale /\ [][NextSale]_vars

ConvertBulk(req, ro) == Respond("convertBulk", req, convertBulk(DB, req, ro))

\* ------------------------------- one allocation on a seeded batch ledger
\* Product 1 in three batches of any stock, expiration (or none) and active
\* flag; product 2 in one batch without expiration.
FifoSeeds ==
  { [EmptyDB EXCEPT
       !.inventory =
          [i \in 1..3 |-> [product_id |-> 1, current_stock |-> st[i],
                           expiration_date |-> ex[i], is_active |-> ac[i]]]
          \o << NewBatch(2, MaxStock, NULL) >>] :
      st \in [1..3 -> 0..MaxStock],
      ex \in [1..3 -> {NULL} \cup Dates],
      ac \in [1..3 -> BOOLEAN] }

InitFifo == \E d \in FifoSeeds : StartFrom(d)

FifoSale ==
  /\ last.op = "none"
  /\ \E q \in (0 - 1)..MaxQty, ro \in RowOrders :
    CreateSale(SaleRequest(NULL, << [productId |-> 1, quantity |-> q] >>,
                           NULL, 0, NULL), ro)

FifoConvert ==
  /\ last.op = "none"
  /\ \E q \in (0 - 1)..MaxQty, ro \in RowOrders :
    ConvertBulk([sourceProductId |-> 1, targetProductId |-> 2,
                 sourceQuantity |-> q], ro)

NextFifo == FifoSale \/ FifoConvert

SpecFifo == InitFifo /\ [][NextFifo]_vars

\* ---------------------------------------- one conversion on a seeded store
\* The seeded store with the only batch of product 2 retired.
SeedNoTarget == [Seed EXCEPT !.inventory[3].is_active = FALSE]

ConvertSeeds == SaleSeeds \cup {SeedNoTarget}

InitConvert == \E d \in ConvertSeeds : StartFrom(d)

OneConvert ==
  /\ last.op = "none"
  /\ \E s \in ProductIds \cup {UnknownProduct},
        t \in ProductIds \cup {UnknownProduct},
        q \in (0 - 1)..MaxQty, ro \in RowOrders :
       ConvertBulk([sourceProductId |-> s, targetProductId |-> t,
                    sourceQuantity |-> q], ro)

NextConvert == OneConvert

SpecConvert == InitConvert /\ [][NextConvert]_vars

\* ---------------------------------------- one adjustment on a seeded store
AdjustStock(req, ro) == Respond("adjustStock", req, adjustStock(DB, req, ro))

OneAdjust ==
  /\ nops < 1
  /\ \E id \in {NULL} \cup 1..(Len(inventory) + 1),
        p \in {NULL, UnknownProduct} \cup ProductIds,
        t \in {"INCREASE", "DECREASE"},
        q \in (0 - 1)..MaxQty,
        r \in BOOLEAN,
        ro \in RowOrders :
       AdjustStock([inventoryId |-> id, productId |-> p, adjustmentType |-> t,
                    quantity |-> q, reason |-> r], ro)

InitAdjust == \E d \in ConvertSeeds : StartFrom(d)

NextAdjust == OneAdjust

SpecAdjust == InitAdjust /\ [][NextAdjust]_vars

\* ------------------------------------- sequences of requests on the seed
VoidSale(req, ro) == Respond("voidSale", req, voidSale(DB, req, ro))
CreateSupply(req, ro) == Respond("createSupply", req, createSupply(DB, req, ro))
DeleteSupply(req, ro) == Respond("deleteSupply", req, deleteSupply(DB, req, ro))
CreatePurchaseOrder(req) ==
  Respond("createPurchaseOrder", req, createPurchaseOrder(DB, req))
CancelPurchaseOrder(req) ==
  Respond("cancelPurchaseOrder", req, cancelPurchaseOrder(DB, req))
ReceiveDelivery(req) == Respond("receiveDelivery", req, receiveDelivery(DB, req))
RecordCustomerPayment(req) ==
  Respond("recordCustomerPayment", req, recordCustomerPayment(DB, req))
RecordSupplierPayment(req) ==
  Respond("recordSupplierPayment", req, recordSupplierPayment(DB, req))
AddInventory(req) == Respond("addInventory", req, addInventory(DB, req))
UpdateInventory(req) == Respond("updateInventory", req, updateInventory(DB, req))
DeleteInventory(req) == Respond("deleteInventory", req, deleteInventory(DB, req))

\* The quantities and the row ids the requests of a sequence carry.
SomeQuantities == {0 - 1, 1, 2}
SomeIds == {1, 2}

SeqSale ==
  /\ nops < MaxOps
  /\ \E c \in {NULL} \cup CustomerIds, q \in SomeQuantities, a \in {0, 50},
        ro \in RowOrders :
       CreateSale(SaleRequest(c, << [productId |-> 1, quantity |-> q] >>,
                              NULL, 0, a), ro)

SeqVoidSale ==
  /\ nops < MaxOps
  /\ \E id \in SomeIds, ro \in RowOrders : VoidSale([id |-> id], ro)

SeqCreateSupply ==
  /\ nops < MaxOps
  /\ \E q \in SomeQuantities, ro \in RowOrders :
       CreateSupply([supplierId |-> 1,
                     items |-> << [productId |-> 1, quantity |-> q,
                                   unitCost |-> 10] >>], ro)

SeqDeleteSupply ==
  /\ nops < MaxOps
  /\ \E id \in SomeIds, ro \in RowOrders : DeleteSupply([id |-> id], ro)

SeqCreatePurchaseOrder ==
  /\ nops < MaxOps
  /\ \E b \in {0, 30} :
       CreatePurchaseOrder([customerId |-> 1,
                            items |-> << [productId |-> 1, quantity |-> 2] >>,
                            outstandingBalance |-> b])

SeqCancelPurchaseOrder ==
  /\ nops < MaxOps
  /\ \E id \in SomeIds : CancelPurchaseOrder([id |-> id])

SeqReceiveDelivery ==
  /\ nops < MaxOps
  /\ \E id \in SomeIds, q \in {NULL, 1} :
       ReceiveDelivery([id |-> id,
                        items |-> << [poDetailId |-> 1, quantity |-> q] >>])

SeqCustomerPayment ==
  /\ nops < MaxOps
  /\ \E a \in {20, 200} : RecordCustomerPayment([id |-> 1, amount |-> a])

SeqSupplierPayment ==
  /\ nops < MaxOps
  /\ \E a \in {5, 200} : RecordSupplierPayment([id |-> 1, amount |-> a])

SeqAddInventory ==
  /\ nops < MaxOps
  /\ \E q \in SomeQuantities, e \in {NULL, 3} :
       AddInventory([productId |-> 1, quantity |-> q, expirationDate |-> e])

SeqAdjustStock ==
  /\ nops < MaxOps
  /\ \E id \in {NULL, 1}, t \in {"INCREASE", "DECREASE"}, q \in {1, 3},
        ro \in RowOrders :
       AdjustStock([inventoryId |-> id, productId |-> 1, adjustmentType |-> t,
                    quantity |-> q, reason |-> TRUE], ro)

SeqUpdateInventory ==
  /\ nops < MaxOps
  /\ \E ss \in BOOLEAN, st \in {0, 1}, se \in BOOLEAN :
       UpdateInventory([id |-> 1, setStock |-> ss, currentStock |-> st,
                        setExpiration |-> se, expirationDate |-> NULL])

SeqDeleteInventory ==
  /\ nops < MaxOps
  /\ \E id \in SomeIds : DeleteInventory([id |-> id])

SeqConvertBulk ==
  /\ nops < MaxOps
  /\ \E q \in SomeQuantities, ro \in RowOrders :
       ConvertBulk([sourceProductId |-> 1, targetProductId |-> 2,
                    sourceQuantity |-> q], ro)

\* The seeded store after a sale of 2 units on credit to customer 1 (50 paid
\* of 100) and a cash sale of 1 unit that was voided.
SeedSold ==
  LET credit == createSale(Seed,
                  SaleRequest(1, << [productId |-> 1, quantity |-> 2] >>,
                              NULL, 0, 50), "pk_asc").db
      cash == createSale(credit,
                SaleRequest(NULL, << [productId |-> 1, quantity |-> 1] >>,
                            NULL, 0, NULL), "pk_asc").db
  IN  voidSale(cash, [id |-> 2], "pk_asc").db

Seeds == {Seed, SeedSold}

Init == \E d \in Seeds : StartFrom(d)

Next ==
  \/ SeqSale
  \/ SeqVoidSale
  \/ SeqCreatePurchaseOrder
  \/ SeqCancelPurchaseOrder
  \/ SeqCreateSupply
  \/ SeqDeleteSupply
  \/ SeqReceiveDelivery
  \/ SeqCustomerPayment
  \/ SeqSupplierPayment
  \/ SeqAddInventory
  \/ SeqAdjustStock
  \/ SeqUpdateInventory
  \/ SeqDeleteInventory
  \/ SeqConvertBulk

Spec == Init /\ [][Next]_vars

\* ------------------------------ purchase orders on the seeded store
\* Up to MaxOrderOps requests of the purchase-order routes: orders of one
\* or two lines, cancellations, and receipts of any part of an order.
MaxOrderOps == 3

OrderLineLists ==
  { << [productId |-> 1, quantity |-> 2] >>,
    << [productId |-> 1, quantity |-> 2],
       [productId |-> 2, quantity |-> 1] >> }

OrderReceipts ==
  { << [poDetailId |-> 1, quantity |-> NULL] >>,
    << [poDetailId |-> 2, quantity |-> 1] >>,
    << [poDetailId |-> 1, quantity |-> 1],
       [poDetailId |-> 2, quantity |-> NULL] >>,
    << [poDetailId |-> 1, quantity |-> 0 - 1] >> }

OrdCreate ==
  /\ nops < MaxOrderOps
  /\ \E l \in OrderLineLists, b \in {0, 30} :
       CreatePurchaseOrder([customerId |-> 1, items |-> l,
                            outstandingBalance |-> b])

OrdCancel ==
  /\ nops < MaxOrderOps
  /\ \E id \in SomeIds : CancelPurchaseOrder([id |-> id])

OrdReceive ==
  /\ nops < MaxOrderOps
  /\ \E id \in SomeIds, l \in OrderReceipts :
       ReceiveDelivery([id |-> id, items |-> l])

InitOrders == StartFrom(Seed)

NextOrders == OrdCreate \/ OrdCancel \/ OrdReceive

SpecOrders == InitOrders /\ [][NextOrders]_vars

\* ------------------------------------------------ withAuth middleware
\* ROLE_HIERARCHY[role] || 0
ROLE_HIERARCHY(role) ==
  CASE role = "CASHIER" -> 1
    [] role = "CLERK" -> 2
    [] role = "MANAGER" -> 3
    [] OTHER -> 0

\* Every role passes for every required role.
anyRolePermitted(userRole, requiredRole) == TRUE

hasPermission(userRole, requiredRole) ==
  ROLE_HIERARCHY(userRole) >= ROLE_HIERARCHY(requiredRole)

\* What a request carries as its token: none, one that jwt.verify refuses,
\* or a signed one with its role claim ("AUDITOR" is in no hierarchy).
Roles == {"CASHIER", "CLERK", "MANAGER", "AUDITOR"}
NoToken == [kind |-> "none", role |-> ""]
Tokens ==
  {NoToken, [kind |-> "forged", role |-> "MANAGER"]}
    \cup {[kind |-> "signed", role |-> r] : r \in Roles}

\* jwt.verify: the payload of a signed token, null for any other.
verifyToken(token) ==
  [valid |-> token.kind = "signed", role |-> token.role]

withCashier == {"CASHIER", "CLERK", "MANAGER"}
withClerk == {"CLERK", "MANAGER"}
withManager == {"MANAGER"}

\* withAuth(handler, { allowedRoles }): out is the handler's response, sent
\* only when the token and the role pass.
withAuth(d, token, allowedRoles, out) ==
  IF token = NoToken THEN Throw("NO_TOKEN", d)
  ELSE
    LET decoded == verifyToken(token) IN
    IF ~decoded.valid THEN Throw("INVALID_TOKEN", d)
    ELSE IF /\ allowedRoles # {}
            /\ ~\E role \in allowedRoles :
                  hasPermission(decoded.role, role) \/ decoded.role = role
    THEN Throw("FORBIDDEN", d)
    ELSE out

\* Store d with a supply and a purchase order on it.
Busy(d) ==
  LET supplied == createSupply(d,
                    [supplierId |-> 1,
                     items |-> << [productId |-> 1, quantity |-> 1,
                                   unitCost |-> 10] >>], "pk_asc").db
  IN  createPurchaseOrder(supplied,
        [customerId |-> 1,
         items |-> << [productId |-> 1, quantity |-> 2] >>,
         outstandingBalance |-> 30]).db

AuthSeeds == {Busy(Seed), Busy(SeedSold)}

MaxAuthOps == 1

\* A request to a route behind withAuth: the token it carries and its body.
Route(op, allowedRoles, body, out) ==
  /\ nops < MaxAuthOps
  /\ \E token \in Tokens :
       Respond(op, [token |-> token, body |-> body],
               withAuth(DB, token, allowedRoles, out))

RouteCreateSale ==
  LET body == SaleRequest(1, << [productId |-> 1, quantity |-> 1] >>,
                          NULL, 0, 20)
  IN  Route("createSale", withCashier, body, createSale(DB, body, "pk_asc"))

RouteCustomerPayment ==
  LET body == [id |-> 1, amount |-> 20]
  IN  Route("recordCustomerPayment", withCashier, body,
            recordCustomerPayment(DB, body))

RouteCreateSupply ==
  LET body == [supplierId |-> 1,
               items |-> << [productId |-> 1, quantity |-> 1,
                             unitCost |-> 10] >>]
  IN  Route("createSupply", withClerk, body,
            createSupply(DB, body, "pk_asc"))

RouteDeleteSupply ==
  LET body == [id |-> 1]
  IN  Route("deleteSupply", withClerk, body, deleteSupply(DB, body, "pk_asc"))

RouteReceiveDelivery ==
  LET body == [id |-> 1,
               items |-> << [poDetailId |-> 1, quantity |-> NULL] >>]
  IN  Route("receiveDelivery", withClerk, body, receiveDelivery(DB, body))

RouteConvertBulk ==
  LET body == [sourceProductId |-> 1, targetProductId |-> 2,
               sourceQuantity |-> 1]
  IN  Route("convertBulk", withClerk, body, convertBulk(DB, body, "pk_asc"))

RouteAddInventory ==
  LET body == [productId |-> 1, quantity |-> 1, expirationDate |-> NULL]
  IN  Route("addInventory", withClerk, body, addInventory(DB, body))

RouteSupplierPayment ==
  LET body == [id |-> 1, amount |-> 5]
  IN  Route("recordSupplierPayment", withClerk, body,
            recordSupplierPayment(DB, body))

RouteVoidSale ==
  LET body == [id |-> 1]
  IN  Route("voidSale", withManager, body, voidSale(DB, body, "pk_asc"))

RouteAdjustStock ==
  LET body == [inventoryId |-> 1, productId |-> NULL,
               adjustmentType |-> "INCREASE", quantity |-> 1,
               reason |-> TRUE]
  IN  Route("adjustStock", withManager, body,
            adjustStock(DB, body, "pk_asc"))

RouteCancelPurchaseOrder ==
  LET body == [id |-> 1]
  IN  Route("cancelPurchaseOrder", withManager, body,
            cancelPurchaseOrder(DB, body))

InitAuth == \E d \in AuthSeeds : StartFrom(d)

NextAuth ==
  \/ RouteCreateSale
  \/ RouteCustomerPayment
  \/ RouteCreateSupply
  \/ RouteDeleteSupply
  \/ RouteReceiveDelivery
  \/ RouteConvertBulk
  \/ RouteAddInventory
  \/ RouteSupplierPayment
  \/ RouteVoidSale
  \/ RouteAdjustStock
  \/ RouteCancelPurchaseOrder

SpecAuth == InitAuth /\ [][NextAuth]_vars

\* ----------------------------------- two sales in concurrent transactions
\* createSale run by two requests at once.  Every await inside the callback
\* of prisma.$transaction is a point where the other request may run.  The
\* client sets no isolation level, so the server's default applies: the
\* product lookup is a plain SELECT (a non-locking read of the transaction's
\* snapshot, plus its own writes), inventory.update takes the row's lock and
\* keeps it until the transaction ends, and the writes are seen by others at
\* commit.
TxIds == {1, 2}

IdleTx ==
  [pc |-> "idle", req |-> << >>, snapshot |-> << >>, item |-> 0,
   batches |-> << >>, b |-> 0, remainingQty |-> 0, subtotal |-> 0,
   saleDetails |-> << >>, writes |-> << >>, ok |-> FALSE, error |-> ""]

RECURSIVE ApplyWrites(_, _, _)
\* The inventory with the first k row updates of a transaction applied.
ApplyWrites(inv, writes, k) ==
  IF k = 0 THEN inv
  ELSE [ApplyWrites(inv, writes, k - 1) EXCEPT
          ![writes[k].inventory_id].current_stock = writes[k].current_stock]

\* Transaction u holds the lock of inventory row id.
LockedBy(u, id) ==
  /\ tx[u].pc \in {"item", "update", "finish"}
  /\ \E i \in 1..Len(tx[u].writes) : tx[u].writes[i].inventory_id = id

\* Transaction t is at an inventory.update whose row another one has locked.
LockWait(t) ==
  /\ tx[t].pc = "update"
  /\ tx[t].b <= Len(tx[t].batches)
  /\ tx[t].remainingQty > 0
  /\ \E u \in TxIds \ {t} :
       LockedBy(u, tx[t].batches[tx[t].b].inventory_id)

\* The callback throws: the transaction rolls back, the request fails.
Rollback(t, e) ==
  [tx EXCEPT ![t].pc = "done", ![t].ok = FALSE, ![t].error = e,
             ![t].writes = << >>]

ConcLines == [productId : ProductIds, quantity : 1..MaxQty]
ConcRequests ==
  { SaleRequest(NULL, l, NULL, 0, NULL) : l \in SeqsUpTo(ConcLines, 2) }

\* The request arrives and its transaction starts.
ConcBegin(t) ==
  /\ tx[t].pc = "idle"
  /\ \E req \in ConcRequests :
       tx' = [tx EXCEPT ![t].pc = "item", ![t].req = req, ![t].item = 1]
  /\ UNCHANGED << tables, pre, last, prev, nops >>

\* Top of the item loop: products.findUnique with its batches and the stock
\* check, or past the last item.
ConcFindProduct(t) ==
  /\ tx[t].pc = "item"
  /\ IF tx[t].item > Len(tx[t].req.items)
     THEN tx' = [tx EXCEPT ![t].pc = "finish"]
     ELSE \E ro \in RowOrders :
       LET snapshot == IF tx[t].item = 1 THEN inventory ELSE tx[t].snapshot
           seen == ApplyWrites(snapshot, tx[t].writes, Len(tx[t].writes))
           chk == checkItem(seen, tx[t].req.items[tx[t].item], ro)
       IN  IF ~chk.ok THEN tx' = Rollback(t, chk.error)
           ELSE tx' = [tx EXCEPT
                  ![t].pc = "update", ![t].snapshot = snapshot,
                  ![t].batches = chk.batches, ![t].b = 1,
                  ![t].remainingQty = chk.detail.quantity,
                  ![t].subtotal = @ + chk.detail.quantity * chk.detail.unit_price,
                  ![t].saleDetails = Append(@, chk.detail)]
  /\ UNCHANGED << tables, pre, last, prev, nops >>

\* One turn of the deduction loop: inventory.update of the next batch read
\* (once its row lock is free), or the end of the loop.
ConcUpdate(t) ==
  /\ tx[t].pc = "update"
  /\ ~LockWait(t)
  /\ IF tx[t].b > Len(tx[t].batches) \/ tx[t].remainingQty <= 0
     THEN tx' = [tx EXCEPT ![t].pc = "item", ![t].item = @ + 1]
     ELSE LET q == deductQty(tx[t].batches, tx[t].b, tx[t].remainingQty) IN
          tx' = [tx EXCEPT
                   ![t].writes = Append(@,
                      [inventory_id |-> tx[t].batches[tx[t].b].inventory_id,
                       current_stock |->
                         tx[t].batches[tx[t].b].current_stock - q]),
                   ![t].b = @ + 1,
                   ![t].remainingQty = @ - q]
  /\ UNCHANGED << tables, pre, last, prev, nops >>

\* The wait for a row lock ends in an error (deadlock victim, lock wait or
\* transaction timeout).
ConcLockWaitFail(t) ==
  /\ LockWait(t)
  /\ tx' = Rollback(t, "LockWait")
  /\ UNCHANGED << tables, pre, last, prev, nops >>

\* The rest of the callback and the commit.
ConcFinish(t) ==
  /\ tx[t].pc = "finish"
  /\ LET d == [DB EXCEPT !.inventory =
                 ApplyWrites(inventory, tx[t].writes, Len(tx[t].writes))]
         out == finishSale(d, tx[t].req, tx[t].subtotal, tx[t].saleDetails)
     IN  IF out.ok
         THEN /\ inventory' = out.db.inventory
              /\ stock_log' = out.db.stock_log
              /\ account_ledger' = out.db.account_ledger
              /\ customers' = out.db.customers
              /\ suppliers' = out.db.suppliers
              /\ sales' = out.db.sales
              /\ supply' = out.db.supply
              /\ purchase_orders' = out.db.purchase_orders
              /\ agrivet_transactions' = out.db.agrivet_transactions
              /\ tx' = [tx EXCEPT ![t].pc = "done", ![t].ok = TRUE,
                                  ![t].writes = << >>]
         ELSE /\ tx' = Rollback(t, out.error)
              /\ UNCHANGED tables
  /\ UNCHANGED << pre, last, prev, nops >>

InitConc == LoadDB(Seed) /\ tx = [t \in TxIds |-> IdleTx]

NextConc ==
  \E t \in TxIds :
    \/ ConcBegin(t)
    \/ ConcFindProduct(t)
    \/ ConcUpdate(t)
    \/ ConcLockWaitFail(t)
    \/ ConcFinish(t)

SpecConc == InitConc /\ [][NextConc]_vars

\* ------------------------ payments concurrent with payments and a sale
\* recordPayment of a customer run by two requests at once, next to a sale
\* on credit to the same customer.  The handler reads the customer with a
\* plain findUnique (a non-locking read), computes the new balance in the
\* process and writes it as an absolute value; the update takes the row's
\* lock until the transaction ends.  createSale adds to the balance with an
\* atomic increment, so it is taken here as one step that waits for the
\* row's lock.
IdlePay ==
  [pc |-> "idle", req |-> << >>, currentBalance |-> 0, paymentAmount |-> 0,
   newBalance |-> 0, ok |-> FALSE, error |-> ""]

\* Transaction u holds the lock of the customer's row.
CustomerLockedBy(u, id) == tx[u].pc = "commit" /\ tx[u].req.id = id

PayAmounts == {20, 200}

\* The request arrives, passes the amount check, its transaction starts.
PayBegin(t) ==
  /\ tx[t].pc = "idle"
  /\ \E a \in PayAmounts :
       tx' = [tx EXCEPT ![t].pc = "read",
                        ![t].req = [id |-> 1, amount |-> a]]
  /\ UNCHANGED << tables, pre, last, prev, nops >>

\* tx.customers.findUnique and the computation of the new balance.
PayRead(t) ==
  /\ tx[t].pc = "read"
  /\ LET currentBalance == customers[tx[t].req.id]
         paymentAmount == paymentAmountOf(tx[t].req.amount, currentBalance)
     IN  tx' = [tx EXCEPT ![t].pc = "write",
                          ![t].currentBalance = currentBalance,
                          ![t].paymentAmount = paymentAmount,
                          ![t].newBalance = currentBalance - paymentAmount]
  /\ UNCHANGED << tables, pre, last, prev, nops >>

\* tx.customers.update({ data: { credit_balance: newBalance } }), once the
\* row's lock is free.
PayWrite(t) ==
  /\ tx[t].pc = "write"
  /\ \A u \in TxIds \ {t} : ~CustomerLockedBy(u, tx[t].req.id)
  /\ tx' = [tx EXCEPT ![t].pc = "commit"]
  /\ UNCHANGED << tables, pre, last, prev, nops >>

\* The wait for the row's lock ends in an error.
PayLockWaitFail(t) ==
  /\ tx[t].pc = "write"
  /\ \E u \in TxIds \ {t} : CustomerLockedBy(u, tx[t].req.id)
  /\ tx' = [tx EXCEPT ![t].pc = "done", ![t].ok = FALSE,
                      ![t].error = "LockWait"]
  /\ UNCHANGED << tables, pre, last, prev, nops >>

\* The ledger credit, the transaction record and the commit.
PayCommit(t) ==
  /\ tx[t].pc = "commit"
  /\ customers' = [customers EXCEPT ![tx[t].req.id] = tx[t].newBalance]
  /\ account_ledger' = Append(account_ledger,
        [account_type |-> "customer", account_id |-> tx[t].req.id,
         reference_type |-> "PAYMENT", reference_id |-> NULL,
         debit |-> 0, credit |-> tx[t].paymentAmount])
  /\ agrivet_transactions' = Append(agrivet_transactions,
        [transaction_type |-> "PAYMENT", ref_id |-> NULL,
         amount |-> tx[t].paymentAmount])
  /\ tx' = [tx EXCEPT ![t].pc = "done", ![t].ok = TRUE]
  /\ UNCHANGED << inventory, stock_log, suppliers, sales, supply,
                  purchase_orders, pre, last, prev, nops >>

\* A sale on credit to the customer, while no payment holds the row's lock.
PaySale ==
  /\ nops < 1
  /\ \A u \in TxIds : ~CustomerLockedBy(u, 1)
  /\ \E q \in 1..MaxStock, a \in {20, 50}, ro \in RowOrders :
       /\ CreateSale(SaleRequest(1, << [productId |-> 1, quantity |-> q] >>,
                                 NULL, 0, a), ro)

InitPay == LoadDB(SeedSold) /\ tx = [t \in TxIds |-> IdlePay]

NextPay ==
  \/ PaySale
  \/ \E t \in TxIds :
       \/ PayBegin(t)
       \/ PayRead(t)
       \/ PayWrite(t)
       \/ PayLockWaitFail(t)
       \/ PayCommit(t)

SpecPay == InitPay /\ [][NextPay]_vars

\* =================================================================
\* Properties of purchase orders (SpecOrders)
\* =================================================================
LastReceive == last.op = "receiveDelivery"

\* The order the last request named, as it was before the request.
OrderBefore == pre.purchase_orders[last.req.id]

\* C21: receiving a CANCELLED purchase order fails with the
\* order-not-receivable error, adds no batch, appends no stock-log entry
\* and leaves the order's status CANCELLED.
C21_CancelledNotReceivable ==
  (/\ LastReceive
   /\ last.req.id \in DOMAIN pre.purchase_orders
   /\ OrderBefore.po_status = "CANCELLED") =>
    /\ ~last.ok
    /\ last.error = "OrderNotReceivable"
    /\ inventory = pre.inventory
    /\ stock_log = pre.stock_log
    /\ purchase_orders[last.req.id].po_status = "CANCELLED"

C21_Witness ==
  /\ LastReceive
  /\ last.req.id \in DOMAIN pre.purchase_orders
  /\ OrderBefore.po_status = "CANCELLED"
  /\ last.error = "OrderNotReceivable"

\* The quantity a line of a receipt brings in: the one it gives, or the
\* ordered one when it gives none; nothing when that is not positive.
LineQty(order, item) ==
  LET q == IF item.quantity # NULL THEN item.quantity
           ELSE order.purchase_order_details[item.poDetailId].quantity
  IN  IF q > 0 THEN q ELSE 0

LineProduct(order, item) ==
  order.purchase_order_details[item.poDetailId].product_id

RECURSIVE ReceivedOf(_, _, _, _)
\* The quantity of product p the first k lines of a receipt bring in.
ReceivedOf(order, items, k, p) ==
  IF k = 0 THEN 0
  ELSE ReceivedOf(order, items, k - 1, p)
       + (IF LineProduct(order, items[k]) = p
          THEN LineQty(order, items[k]) ELSE 0)

RECURSIVE ReceiptLog(_, _, _)
\* The stock-log entries of the first k lines of a receipt.
ReceiptLog(order, items, k) ==
  IF k = 0 THEN << >>
  ELSE IF LineQty(order, items[k]) = 0 THEN ReceiptLog(order, items, k - 1)
  ELSE Append(ReceiptLog(order, items, k - 1),
              [product_id |-> LineProduct(order, items[k]),
               change_type |-> "PURCHASE",
               quantity |-> LineQty(order, items[k])])

ReceivedPending ==
  /\ LastReceive
  /\ last.ok
  /\ OrderBefore.po_status = "PENDING"

\* C22: a successful receiveDelivery on a PENDING order increases, for each
\* received line of positive quantity, the product's on-hand by the
\* received quantity, appends one PURCHASE stock-log entry of that quantity
\* per such line and leaves the order RECEIVED, whatever part of the
\* order's lines is received.
C22_Receiving ==
  ReceivedPending =>
    LET items == last.req.items IN
    /\ \A p \in ProductIds :
         totalOnHand(inventory, p) =
           totalOnHand(pre.inventory, p)
             + ReceivedOf(OrderBefore, items, Len(items), p)
    /\ stock_log = pre.stock_log \o ReceiptLog(OrderBefore, items, Len(items))
    /\ purchase_orders[last.req.id].po_status = "RECEIVED"

\* One line of a two-line order is received.
C22_Witness ==
  /\ ReceivedPending
  /\ Len(OrderBefore.purchase_order_details) = 2
  /\ Len(last.req.items) = 1
  /\ LineQty(OrderBefore, last.req.items[1]) > 0

\* The request before the last one was a receipt of the same order that
\* brought goods in.
ReceivedBefore ==
  /\ prev.last.op = "receiveDelivery"
  /\ prev.last.ok
  /\ prev.last.req.id = last.req.id
  /\ Len(pre.inventory) > Len(prev.db.inventory)

\* C32: receiveDelivery on an order that is already RECEIVED (its goods
\* were brought in by the receipt before) adds no batch and appends no
\* stock-log entry, so an order's goods enter stock at most once.
C32_ReceivedOnce ==
  (/\ LastReceive
   /\ last.req.id \in DOMAIN pre.purchase_orders
   /\ OrderBefore.po_status = "RECEIVED"
   /\ ReceivedBefore) =>
    /\ inventory = pre.inventory
    /\ stock_log = pre.stock_log

LastCancel == last.op = "cancelPurchaseOrder"

\* C33: an order starts PENDING; its status changes only from PENDING to
\* RECEIVED, by receiveDelivery, and from PENDING to CANCELLED, by
\* cancelPurchaseOrder, so that a RECEIVED order never becomes CANCELLED
\* and a CANCELLED order never becomes RECEIVED.
C33_StatusOneWay ==
  \A id \in DOMAIN purchase_orders :
    LET status == purchase_orders[id].po_status IN
    IF id \notin DOMAIN pre.purchase_orders THEN status = "PENDING"
    ELSE
      LET before == pre.purchase_orders[id].po_status IN
      status # before =>
        /\ before = "PENDING"
        /\ \/ status = "RECEIVED" /\ LastReceive /\ last.req.id = id
           \/ status = "CANCELLED" /\ LastCancel /\ last.req.id = id

\* A RECEIVED order is asked to be cancelled and stays RECEIVED.
C33_Witness ==
  /\ LastCancel
  /\ last.req.id \in DOMAIN pre.purchase_orders
  /\ OrderBefore.po_status = "RECEIVED"
  /\ ~last.ok
  /\ purchase_orders[last.req.id].po_status = "RECEIVED"

RECURSIVE OrderLedger(_, _, _)
\* Debits less credits of the first k ledger entries that refer to a
\* purchase order.
OrderLedger(ledger, k, po_id) ==
  IF k = 0 THEN 0
  ELSE OrderLedger(ledger, k - 1, po_id)
       + (IF /\ ledger[k].reference_type \in {"PURCHASE_ORDER", "CANCELLED_PO"}
             /\ ledger[k].reference_id = po_id
          THEN ledger[k].debit - ledger[k].credit ELSE 0)

\* C23: the ledger entries that refer to a purchase order sum (debits less
\* credits) to the order's outstanding balance while it is not cancelled,
\* and to zero once it is cancelled, however often it was cancelled.
C23_CancelReverses ==
  \A id \in DOMAIN purchase_orders :
    OrderLedger(account_ledger, Len(account_ledger), id) =
      IF purchase_orders[id].po_status = "CANCELLED" THEN 0
      ELSE purchase_orders[id].outstanding_balance

\* =================================================================
\* Properties of supply receipts (Spec)
\* =================================================================
ReceiptOk ==
  /\ last.op = "createSupply"
  /\ last.ok
  /\ \A k \in DOMAIN last.req.items : last.req.items[k].quantity >= 1

RECURSIVE ReceiptCost(_, _)
\* Sum of quantity x unitCost over the first k lines.
ReceiptCost(items, k) ==
  IF k = 0 THEN 0
  ELSE ReceiptCost(items, k - 1) + items[k].quantity * items[k].unitCost

\* C24: a successful createSupply creates one new batch per line holding
\* the received quantity and leaves the batches that existed before as
\* they were, appends one stock-log entry of the received quantity per
\* line, and adds the sum of quantity x unitCost to the supplier's
\* payable_balance.
C24_SupplyReceipt ==
  ReceiptOk =>
    LET items == last.req.items
        n == Len(pre.inventory)
        m == Len(pre.stock_log)
    IN
    /\ Len(inventory) = n + Len(items)
    /\ \A i \in 1..n : inventory[i] = pre.inventory[i]
    /\ \A k \in DOMAIN items :
         /\ inventory[n + k].product_id = items[k].productId
         /\ inventory[n + k].current_stock = items[k].quantity
    /\ Len(stock_log) = m + Len(items)
    /\ \A k \in DOMAIN items :
         /\ stock_log[m + k].product_id = items[k].productId
         /\ stock_log[m + k].quantity = items[k].quantity
    /\ suppliers[last.req.supplierId] =
         pre.suppliers[last.req.supplierId] + ReceiptCost(items, Len(items))

\* A supply was received and the next request voided that supply.
SupplyThenVoid ==
  /\ prev.last.op = "createSupply"
  /\ prev.last.ok
  /\ last.op = "deleteSupply"
  /\ last.ok
  /\ last.req.id = Len(pre.supply)

\* C25: when createSupply succeeds and the next request voids that supply,
\* every product's on-hand and the supplier's payable_balance are what they
\* were before the receipt, and the supply and its lines are gone.
C25_SupplyRoundTrip ==
  SupplyThenVoid =>
    /\ \A p \in ProductIds :
         totalOnHand(inventory, p) = totalOnHand(prev.db.inventory, p)
    /\ suppliers = prev.db.suppliers
    /\ ~supply[last.req.id].present
    /\ supply[last.req.id].supply_details = << >>

\* =================================================================
\* Properties of one manual adjustment (SpecAdjust)
\* =================================================================
LastAdjust == last.op = "adjustStock"

\* The quantity with the sign of the adjustment's type.
SignedQty(req) ==
  IF req.adjustmentType = "DECREASE" THEN 0 - Abs(req.quantity)
  ELSE Abs(req.quantity)

\* The batches an adjustment may be aimed at: the one it names, else any
\* active batch of the product it names.
Targets(inv, req) ==
  IF req.inventoryId # NULL
  THEN {i \in DOMAIN inv : i = req.inventoryId}
  ELSE {i \in DOMAIN inv : inv[i].product_id = req.productId
                             /\ inv[i].is_active}

\* A DECREASE by more than any batch it may be aimed at holds.
TooLarge(inv, req) ==
  /\ req.adjustmentType = "DECREASE"
  /\ req.reason
  /\ req.quantity # 0
  /\ Targets(inv, req) # {}
  /\ \A i \in Targets(inv, req) : inv[i].current_stock < Abs(req.quantity)

\* Batch i is the one batch that differs from before, by q.
OnlyBatchChanged(i, q) ==
  /\ \A j \in DOMAIN pre.inventory : j # i => inventory[j] = pre.inventory[j]
  /\ IF i \in DOMAIN pre.inventory
     THEN /\ Len(inventory) = Len(pre.inventory)
          /\ inventory[i] =
               [pre.inventory[i] EXCEPT !.current_stock = @ + q]
     ELSE /\ Len(inventory) = Len(pre.inventory) + 1
          /\ i = Len(inventory)
          /\ inventory[i].current_stock = q

\* C26: a DECREASE larger than the targeted batch's quantity fails with the
\* negative-stock error and leaves batches and stock log unchanged; every
\* successful adjustStock changes exactly one batch by the signed quantity
\* and appends exactly one ADJUSTMENT entry of that signed quantity; a
\* request without a reason is rejected with no change.
C26_ManualAdjustment ==
  LastAdjust =>
    /\ TooLarge(pre.inventory, last.req) =>
         /\ ~last.ok
         /\ last.error = "NegativeStock"
         /\ inventory = pre.inventory
         /\ stock_log = pre.stock_log
    /\ last.ok =>
         \E i \in DOMAIN inventory :
           /\ OnlyBatchChanged(i, SignedQty(last.req))
           /\ stock_log =
                Append(pre.stock_log,
                       [product_id |-> inventory[i].product_id,
                        change_type |-> "ADJUSTMENT",
                        quantity |-> SignedQty(last.req)])
    /\ ~last.req.reason => ~last.ok /\ DB = pre

\* A decrease of 3 aimed at a batch of 2 was refused.
C26_Witness ==
  /\ LastAdjust
  /\ TooLarge(pre.inventory, last.req)
  /\ \E i \in Targets(pre.inventory, last.req) :
       pre.inventory[i].current_stock > 0
  /\ last.error = "NegativeStock"

\* =================================================================
\* Validation of quantities and amounts (Spec)
\* =================================================================
\* Request l carries a quantity or an amount that is not positive.
NotPositiveIn(l) ==
  \/ /\ l.op \in {"createSale", "createSupply"}
     /\ \E k \in DOMAIN l.req.items : l.req.items[k].quantity <= 0
  \/ l.op = "convertBulk" /\ l.req.sourceQuantity <= 0
  \/ l.op = "addInventory" /\ l.req.quantity <= 0
  \/ /\ l.op \in {"recordCustomerPayment", "recordSupplierPayment"}
     /\ l.req.amount <= 0

NotPositive == NotPositiveIn(last)

\* C27: createSale, createSupply, addInventory with a zero or negative
\* quantity, convertBulk with a zero or negative sourceQuantity and payments
\* with a zero or negative amount are rejected with an error and change no
\* batch, balance, log or ledger entry.
C27_Validation ==
  NotPositive => ~last.ok /\ DB = pre

\* =================================================================
\* The role pre-check (SpecAuth)
\* =================================================================
\* The roles a request of the route may come from.
RolesFor(op) ==
  CASE op \in {"voidSale", "adjustStock", "cancelPurchaseOrder"} ->
         {"MANAGER"}
    [] op \in {"createSupply", "deleteSupply", "receiveDelivery",
               "convertBulk", "addInventory", "recordSupplierPayment"} ->
         {"CLERK", "MANAGER"}
    [] op \in {"createSale", "recordCustomerPayment"} ->
         {"CASHIER", "CLERK", "MANAGER"}
    [] OTHER -> {}

\* C28: a request changes state only when it carries a valid token whose
\* role the route admits (MANAGER for voidSale, adjustStock and
\* cancelPurchaseOrder; CLERK or MANAGER for the supply, delivery,
\* conversion, inventory and supplier-payment routes; any of the three
\* roles for createSale and the customer payment); without a valid token or
\* with an unknown role it reaches no handler and changes nothing.
C28_RolePreCheck ==
  last.op # "none" =>
    LET token == last.req.token
        admitted == token.kind = "signed" /\ token.role \in RolesFor(last.op)
    IN  /\ DB # pre => admitted
        /\ ~admitted =>
             /\ ~last.ok
             /\ last.error \in {"NO_TOKEN", "INVALID_TOKEN", "FORBIDDEN"}
             /\ DB = pre

\* A clerk's request was refused on a manager's route.
C28_Witness ==
  /\ last.op \in {"voidSale", "adjustStock", "cancelPurchaseOrder"}
  /\ last.req.token = [kind |-> "signed", role |-> "CLERK"]
  /\ last.error = "FORBIDDEN"

\* =================================================================
\* Account balances (Spec)
\* =================================================================
\* C29: every customer's credit_balance and every supplier's
\* payable_balance is at least 0 after any requests (of positive
\* quantities and amounts): credit sales, payments, sale voids, supply
\* receipts and supply voids.
C29_BalancesNonNegative ==
  (~NotPositiveIn(prev.last) /\ ~NotPositiveIn(last)) =>
    /\ \A c \in CustomerIds : customers[c] >= 0
    /\ \A sp \in SupplierIds : suppliers[sp] >= 0

\* --------------------------------------- two voids of a sale at once
\* voidSale run by two requests at once.  The handler reads the sale with a
\* plain findUnique (a non-locking read), and then writes: the increment of
\* the batch, the decrement of the customer's balance and the update of the
\* sale take the rows' locks until the transaction ends.
NoSale ==
  [is_active |-> FALSE, customer_id |-> NULL, total_amount |-> 0,
   amount_paid |-> 0, sale_status |-> "", sale_details |-> << >>]

IdleVoid ==
  [pc |-> "idle", req |-> << >>, sale |-> NoSale, ok |-> FALSE, error |-> ""]

\* Transaction u holds the locks of the rows sale id's void writes.
SaleLockedBy(u, id) == tx[u].pc = "commit" /\ tx[u].req.id = id

\* The request arrives and its transaction starts.
VoidBegin(t) ==
  /\ tx[t].pc = "idle"
  /\ \E id \in DOMAIN sales \cup {Len(sales) + 1} :
       tx' = [tx EXCEPT ![t].pc = "read", ![t].req = [id |-> id]]
  /\ UNCHANGED << tables, pre, last, prev, nops >>

\* tx.sales.findUnique and the two checks on what it returned.
VoidRead(t) ==
  /\ tx[t].pc = "read"
  /\ tx' =
       IF tx[t].req.id \notin DOMAIN sales
       THEN [tx EXCEPT ![t].pc = "done", ![t].error = "SaleNotFound"]
       ELSE IF alreadyVoided(sales[tx[t].req.id])
       THEN [tx EXCEPT ![t].pc = "done", ![t].error = "AlreadyVoided"]
       ELSE [tx EXCEPT ![t].pc = "write", ![t].sale = sales[tx[t].req.id]]
  /\ UNCHANGED << tables, pre, last, prev, nops >>

\* The first update, once the rows' locks are free.
VoidWrite(t) ==
  /\ tx[t].pc = "write"
  /\ \A u \in TxIds \ {t} : ~SaleLockedBy(u, tx[t].req.id)
  /\ tx' = [tx EXCEPT ![t].pc = "commit"]
  /\ UNCHANGED << tables, pre, last, prev, nops >>

\* The wait for a row's lock ends in an error.
VoidLockWaitFail(t) ==
  /\ tx[t].pc = "write"
  /\ \E u \in TxIds \ {t} : SaleLockedBy(u, tx[t].req.id)
  /\ tx' = [tx EXCEPT ![t].pc = "done", ![t].error = "LockWait"]
  /\ UNCHANGED << tables, pre, last, prev, nops >>

\* The rest of the writes and the commit.
VoidCommit(t) ==
  /\ tx[t].pc = "commit"
  /\ \E ro \in RowOrders :
       LET d == voidSaleWrites(DB, tx[t].req, tx[t].sale, ro) IN
       /\ inventory' = d.inventory
       /\ stock_log' = d.stock_log
       /\ customers' = d.customers
       /\ account_ledger' = d.account_ledger
       /\ sales' = d.sales
  /\ tx' = [tx EXCEPT ![t].pc = "done", ![t].ok = TRUE]
  /\ UNCHANGED << suppliers, supply, purchase_orders, agrivet_transactions,
                  pre, last, prev, nops >>

InitVoid == LoadDB(SeedSold) /\ tx = [t \in TxIds |-> IdleVoid]

NextVoid ==
  \E t \in TxIds :
    \/ VoidBegin(t)
    \/ VoidRead(t)
    \/ VoidWrite(t)
    \/ VoidLockWaitFail(t)
    \/ VoidCommit(t)

SpecVoid == InitVoid /\ [][NextVoid]_vars

\* ------------------------------------------ concurrent voids (SpecVoid)
\* Both requests were answered, and both named sale id.
BothVoided(id) ==
  \A t \in TxIds : tx[t].pc = "done" /\ tx[t].req.id = id

RECURSIVE DetailQuantity(_, _, _)
\* The quantity of product p on the first k lines of a stored sale.
DetailQuantity(details, k, p) ==
  IF k = 0 THEN 0
  ELSE DetailQuantity(details, k - 1, p)
       + (IF details[k].product_id = p THEN details[k].quantity ELSE 0)

\* C30: when two voidSale requests for the same active sale run at once,
\* at most one succeeds, and the sold quantities are added back to stock
\* and the customer's credit is taken off exactly once.
C30_VoidOnce ==
  \A id \in DOMAIN pre.sales :
    (BothVoided(id) /\ pre.sales[id].is_active) =>
      LET sale == pre.sales[id] IN
      /\ ~(tx[1].ok /\ tx[2].ok)
      /\ (tx[1].ok \/ tx[2].ok) =>
           /\ \A p \in ProductIds :
                totalOnHand(inventory, p) =
                  totalOnHand(pre.inventory, p)
                    + DetailQuantity(sale.sale_details,
                                     Len(sale.sale_details), p)
           /\ customers[sale.customer_id] =
                pre.customers[sale.customer_id]
                  - (sale.total_amount - sale.amount_paid)

\* ------------------------------- an edit of a batch beside other requests
\* updateInventory reads the batch with prisma.inventory.findUnique before
\* its transaction starts and later writes the row from what it read.
\* Sales, adjustments and voids of other users are answered in between.
NoBatch ==
  [product_id |-> NULL, current_stock |-> 0, expiration_date |-> NULL,
   is_active |-> FALSE]

IdleEdit == [pc |-> "idle", req |-> << >>, existing |-> NoBatch]

\* PUT /api/inventory/[id] arrives; its body has no currentStock.
EditBegin ==
  /\ tx.pc = "idle"
  /\ \E id \in SomeIds \cup {Len(inventory) + 1}, se \in BOOLEAN :
       tx' = [tx EXCEPT !.pc = "find",
                        !.req = [id |-> id, setStock |-> FALSE,
                                 currentStock |-> 0, setExpiration |-> se,
                                 expirationDate |-> NULL]]
  /\ UNCHANGED << tables, pre, last, prev, nops >>

\* prisma.inventory.findUnique, outside of any transaction.
EditFind ==
  /\ tx.pc = "find"
  /\ IF tx.req.id \in DOMAIN inventory
     THEN /\ tx' = [tx EXCEPT !.pc = "update",
                              !.existing = inventory[tx.req.id]]
          /\ UNCHANGED << tables, pre, last, prev, nops >>
     ELSE /\ tx' = [tx EXCEPT !.pc = "done"]
          /\ pre' = DB
          /\ prev' = [db |-> pre, last |-> last]
          /\ last' = [op |-> "updateInventory", req |-> tx.req,
                      ok |-> FALSE, error |-> "InventoryNotFound"]
          /\ UNCHANGED << tables, nops >>

\* The transaction of the edit, with the row that was read.
EditUpdate ==
  /\ tx.pc = "update"
  /\ LET out == Transaction(DB, updateInventoryTx(DB, tx.req, tx.existing))
     IN  /\ inventory' = out.db.inventory
         /\ stock_log' = out.db.stock_log
         /\ last' = [op |-> "updateInventory", req |-> tx.req,
                     ok |-> out.ok, error |-> out.error]
  /\ pre' = DB
  /\ prev' = [db |-> pre, last |-> last]
  /\ tx' = [tx EXCEPT !.pc = "done"]
  /\ UNCHANGED << account_ledger, customers, suppliers, sales, supply,
                  purchase_orders, agrivet_transactions, nops >>

EditSale ==
  /\ nops < MaxOps
  /\ \E q \in 1..MaxStock, ro \in RowOrders :
       CreateSale(SaleRequest(NULL, << [productId |-> 1, quantity |-> q] >>,
                              NULL, 0, 0), ro)

EditAdjust ==
  /\ nops < MaxOps
  /\ \E id \in SomeIds, t \in {"INCREASE", "DECREASE"}, ro \in RowOrders :
       AdjustStock([inventoryId |-> id, productId |-> 1, adjustmentType |-> t,
                    quantity |-> 1, reason |-> TRUE], ro)

EditVoid ==
  /\ nops < MaxOps
  /\ \E id \in SomeIds, ro \in RowOrders : VoidSale([id |-> id], ro)

InitEdit == LoadDB(SeedSold) /\ tx = IdleEdit

NextEdit ==
  \/ EditBegin
  \/ EditFind
  \/ EditUpdate
  \/ EditSale
  \/ EditAdjust
  \/ EditVoid

SpecEdit == InitEdit /\ [][NextEdit]_vars

\* ------------------------------------ edits beside other requests (SpecEdit)
\* C34: an updateInventory without currentStock leaves the batch's quantity
\* as the requests committed before it left it, whatever was answered
\* between its read and its write.
C34_EditKeepsQuantity ==
  (/\ last.op = "updateInventory"
   /\ last.ok
   /\ ~last.req.setStock) =>
    inventory[last.req.id].current_stock
      = pre.inventory[last.req.id].current_stock

\* ------------------------------------ supplies received and voided
\* Up to MaxSupplyOps requests on a store where product 1 has one active
\* batch, which took in a supply of 1 unit: receipts, sales, retired
\* batches and voided supplies.
MaxSupplyOps == 3

SupCreate ==
  /\ nops < MaxSupplyOps
  /\ \E q \in 1..MaxStock, ro \in RowOrders :
       CreateSupply([supplierId |-> 1,
                     items |-> << [productId |-> 1, quantity |-> q,
                                   unitCost |-> 10] >>], ro)

SupSale ==
  /\ nops < MaxSupplyOps
  /\ \E q \in 1..MaxQty, ro \in RowOrders :
       CreateSale(SaleRequest(NULL, << [productId |-> 1, quantity |-> q] >>,
                              NULL, 0, 0), ro)

SupRetire ==
  /\ nops < MaxSupplyOps
  /\ \E id \in SomeIds : DeleteInventory([id |-> id])

SupDelete ==
  /\ nops < MaxSupplyOps
  /\ \E id \in SomeIds, ro \in RowOrders : DeleteSupply([id |-> id], ro)

InitSupply == StartFrom(Busy(SeedRetired))

NextSupply == SupCreate \/ SupSale \/ SupRetire \/ SupDelete

SpecSupply == InitSupply /\ [][NextSupply]_vars

\* ------------------------------------------ voided supplies (SpecSupply)
RECURSIVE VoidedOf(_, _, _)
\* The quantity of product p the first k lines of a supply received.
VoidedOf(details, k, p) ==
  IF k = 0 THEN 0
  ELSE VoidedOf(details, k - 1, p)
       + (IF details[k].product_id = p THEN details[k].unit_quantity ELSE 0)

\* The supply the last request named, as it was before the request.
SupplyBefore == pre.supply[last.req.id]

\* Less of some product is on hand than the supply received of it: part
\* was sold, or no batch of it is active.
ShortOfReceived ==
  LET details == SupplyBefore.supply_details IN
  \E p \in ProductIds :
    totalOnHand(pre.inventory, p) < VoidedOf(details, Len(details), p)

\* C35: a deleteSupply removes exactly what the supply received or fails:
\* when less of a product is on hand than the supply received of it, the
\* void fails and changes nothing; a void that succeeds decreases each
\* product's on-hand by exactly the received quantity.
C35_VoidRemovesReceived ==
  (/\ last.op = "deleteSupply"
   /\ last.req.id \in DOMAIN pre.supply
   /\ SupplyBefore.present) =>
    LET details == SupplyBefore.supply_details IN
    /\ ShortOfReceived => ~last.ok /\ DB = pre
    /\ (last.ok /\ ~ShortOfReceived) =>
         \A p \in ProductIds :
           totalOnHand(inventory, p) =
             totalOnHand(pre.inventory, p)
               - VoidedOf(details, Len(details), p)

\* --------------------------------------- two voids of a supply at once
\* deleteSupply run by two requests at once.  Each reads the supply with
\* prisma.supply.findUnique before its transaction starts.  Inside the
\* transaction findFirst is a plain read of the transaction's snapshot; the
\* updates take row locks that are held until the transaction ends, the
\* stock written is computed from the row that was read, the payable is
\* decremented in place.
NoSupply ==
  [supplier_id |-> NULL, total |-> 0, supply_details |-> << >>,
   present |-> FALSE]

IdleUnsupply ==
  [pc |-> "idle", req |-> << >>, supply |-> NoSupply, inventory |-> << >>,
   present |-> FALSE, ro |-> "", ok |-> FALSE, error |-> ""]

\* Transaction u holds row locks that a void of supply id needs.
SupplyLockedBy(u, id) == tx[u].pc = "commit" /\ tx[u].req.id = id

\* DELETE /api/supply/[id] arrives.
UnsBegin(t) ==
  /\ tx[t].pc = "idle"
  /\ \E id \in SomeIds :
       tx' = [tx EXCEPT ![t].pc = "find", ![t].req = [id |-> id]]
  /\ UNCHANGED << tables, pre, last, prev, nops >>

\* prisma.supply.findUnique, before the transaction.
UnsFind(t) ==
  /\ tx[t].pc = "find"
  /\ LET id == tx[t].req.id IN
     tx' = IF id \notin DOMAIN supply \/ ~supply[id].present
           THEN [tx EXCEPT ![t].pc = "done", ![t].error = "SupplyNotFound"]
           ELSE [tx EXCEPT ![t].pc = "read", ![t].supply = supply[id]]
  /\ UNCHANGED << tables, pre, last, prev, nops >>

\* The transaction starts: its first tx.inventory.findFirst fixes what its
\* plain reads see.
UnsRead(t) ==
  /\ tx[t].pc = "read"
  /\ \E ro \in RowOrders :
       tx' = [tx EXCEPT ![t].pc = "write", ![t].inventory = inventory,
                        ![t].present = supply[tx[t].req.id].present,
                        ![t].ro = ro]
  /\ UNCHANGED << tables, pre, last, prev, nops >>

\* The first tx.inventory.update, once the rows' locks are free.
UnsWrite(t) ==
  /\ tx[t].pc = "write"
  /\ \A u \in TxIds \ {t} : ~SupplyLockedBy(u, tx[t].req.id)
  /\ tx' = [tx EXCEPT ![t].pc = "commit"]
  /\ UNCHANGED << tables, pre, last, prev, nops >>

\* The wait for a row lock ends in an error.
UnsLockWaitFail(t) ==
  /\ tx[t].pc = "write"
  /\ \E u \in TxIds \ {t} : SupplyLockedBy(u, tx[t].req.id)
  /\ tx' = [tx EXCEPT ![t].pc = "done", ![t].error = "LockWait"]
  /\ UNCHANGED << tables, pre, last, prev, nops >>

\* The rows of the transaction and its end.  tx.supply.delete of a row
\* that another transaction deleted throws when the transaction's reads no
\* longer see the row; when they still see it, the statement deletes no
\* row and the client either reports the missing record or does not.
UnsCommit(t) ==
  /\ tx[t].pc = "commit"
  /\ LET id == tx[t].req.id
         found == tx[t].supply
         details == found.supply_details
         rev == reverseDetails([DB EXCEPT !.inventory = tx[t].inventory],
                               details, 1, tx[t].ro)
         written == { findFirstInventory(tx[t].inventory,
                                         details[k].product_id, tx[t].ro) :
                        k \in DOMAIN details } \ {NULL}
         committed ==
           /\ inventory' = [i \in DOMAIN inventory |->
                              IF i \in written THEN rev.inventory[i]
                              ELSE inventory[i]]
           /\ stock_log' = rev.stock_log
           /\ suppliers' =
                IF found.supplier_id # NULL
                THEN [suppliers EXCEPT ![found.supplier_id] = @ - found.total]
                ELSE suppliers
           /\ supply' = [supply EXCEPT ![id].supply_details = << >>,
                                       ![id].present = FALSE]
           /\ tx' = [tx EXCEPT ![t].pc = "done", ![t].ok = TRUE]
         thrown ==
           /\ tx' = [tx EXCEPT ![t].pc = "done",
                               ![t].error = "RecordNotFound"]
           /\ UNCHANGED << inventory, stock_log, suppliers, supply >>
     IN  IF supply[id].present THEN committed
         ELSE IF ~tx[t].present THEN thrown
         ELSE committed \/ thrown
  /\ UNCHANGED << account_ledger, customers, sales, purchase_orders,
                  agrivet_transactions, pre, last, prev, nops >>

InitUnsupply == LoadDB(Busy(Seed)) /\ tx = [t \in TxIds |-> IdleUnsupply]

NextUnsupply ==
  \E t \in TxIds :
    \/ UnsBegin(t)
    \/ UnsFind(t)
    \/ UnsRead(t)
    \/ UnsWrite(t)
    \/ UnsLockWaitFail(t)
    \/ UnsCommit(t)

SpecUnsupply == InitUnsupply /\ [][NextUnsupply]_vars

\* ------------------------------------ concurrent voids of a supply
\* C36: whatever the interleaving of the deleteSupply requests for a
\* supply, its received quantities leave stock at most once and the
\* supplier's payable_balance is decremented by its total at most once.
C36_ReversedOnce ==
  \A id \in DOMAIN pre.supply :
    LET found == pre.supply[id]
        details == found.supply_details
    IN  /\ \A p \in ProductIds :
             totalOnHand(inventory, p) >=
               totalOnHand(pre.inventory, p)
                 - VoidedOf(details, Len(details), p)
        /\ suppliers[found.supplier_id] >=
             pre.suppliers[found.supplier_id] - found.total

\* ------------------------- a receipt and a cancellation at once
\* receiveDelivery and cancelPurchaseOrder run by two requests at once.
\* Each reads the order with a plain findUnique (a non-locking read) and
\* tests the status it read; the update of the order's row takes the row's
\* lock until the transaction ends.  The rows a transaction creates are
\* seen by the other only after its commit.
NoOrder ==
  [customer_id |-> NULL, po_status |-> "", outstanding_balance |-> 0,
   purchase_order_details |-> << >>]

IdleOrderTx ==
  [pc |-> "idle", op |-> "", req |-> << >>, order |-> NoOrder,
   ok |-> FALSE, error |-> ""]

\* Transaction u holds the lock of order id's row.
OrderLockedBy(u, id) == tx[u].pc = "commit" /\ tx[u].req.id = id

RaceReceipts ==
  { << [poDetailId |-> 1, quantity |-> NULL] >>,
    << [poDetailId |-> 1, quantity |-> 1] >>,
    << [poDetailId |-> 2, quantity |-> 1] >> }

\* A request arrives and its transaction starts.
RaceBegin(t) ==
  /\ tx[t].pc = "idle"
  /\ \E id \in DOMAIN purchase_orders \cup {Len(purchase_orders) + 1} :
       \/ \E l \in RaceReceipts :
            tx' = [tx EXCEPT ![t].pc = "read", ![t].op = "receiveDelivery",
                             ![t].req = [id |-> id, items |-> l]]
       \/ tx' = [tx EXCEPT ![t].pc = "read",
                           ![t].op = "cancelPurchaseOrder",
                           ![t].req = [id |-> id]]
  /\ UNCHANGED << tables, pre, last, prev, nops >>

\* tx.purchase_orders.findUnique and the checks on what it returned; a
\* receipt also walks its lines.
RaceRead(t) ==
  /\ tx[t].pc = "read"
  /\ LET id == tx[t].req.id IN
     tx' =
       IF id \notin DOMAIN purchase_orders
       THEN [tx EXCEPT ![t].pc = "done", ![t].error = "OrderNotFound"]
       ELSE
         LET order == purchase_orders[id] IN
         IF tx[t].op = "receiveDelivery"
         THEN IF orderCancelled(order)
              THEN [tx EXCEPT ![t].pc = "done",
                              ![t].error = "OrderNotReceivable"]
              ELSE IF ~receiveWrites(DB, tx[t].req, order).ok
              THEN [tx EXCEPT ![t].pc = "done",
                              ![t].error =
                                 receiveWrites(DB, tx[t].req, order).error]
              ELSE [tx EXCEPT ![t].pc = "write", ![t].order = order]
         ELSE IF orderReceived(order)
              THEN [tx EXCEPT ![t].pc = "done", ![t].error = "OrderReceived"]
              ELSE [tx EXCEPT ![t].pc = "write", ![t].order = order]
  /\ UNCHANGED << tables, pre, last, prev, nops >>

\* tx.purchase_orders.update, once the row's lock is free.
RaceWrite(t) ==
  /\ tx[t].pc = "write"
  /\ \A u \in TxIds \ {t} : ~OrderLockedBy(u, tx[t].req.id)
  /\ tx' = [tx EXCEPT ![t].pc = "commit"]
  /\ UNCHANGED << tables, pre, last, prev, nops >>

\* The wait for the row's lock ends in an error.
RaceLockWaitFail(t) ==
  /\ tx[t].pc = "write"
  /\ \E u \in TxIds \ {t} : OrderLockedBy(u, tx[t].req.id)
  /\ tx' = [tx EXCEPT ![t].pc = "done", ![t].error = "LockWait"]
  /\ UNCHANGED << tables, pre, last, prev, nops >>

\* The commit: what the transaction wrote for the order it read.
RaceCommit(t) ==
  /\ tx[t].pc = "commit"
  /\ LET d == IF tx[t].op = "receiveDelivery"
              THEN receiveWrites(DB, tx[t].req, tx[t].order).db
              ELSE cancelWrites(DB, tx[t].req, tx[t].order)
     IN  /\ inventory' = d.inventory
         /\ stock_log' = d.stock_log
         /\ account_ledger' = d.account_ledger
         /\ purchase_orders' = d.purchase_orders
  /\ tx' = [tx EXCEPT ![t].pc = "done", ![t].ok = TRUE]
  /\ UNCHANGED << customers, suppliers, sales, supply, agrivet_transactions,
                  pre, last, prev, nops >>

InitRace == LoadDB(Busy(Seed)) /\ tx = [t \in TxIds |-> IdleOrderTx]

NextRace ==
  \E t \in TxIds :
    \/ RaceBegin(t)
    \/ RaceRead(t)
    \/ RaceWrite(t)
    \/ RaceLockWaitFail(t)
    \/ RaceCommit(t)

SpecRace == InitRace /\ [][NextRace]_vars

\* ----------------------------- receipt against cancellation (SpecRace)
\* Both requests were answered: one receipt and one cancellation of order
\* id, which was PENDING.
ReceiveAndCancel(id) ==
  /\ \A t \in TxIds : tx[t].pc = "done" /\ tx[t].req.id = id
  /\ {tx[t].op : t \in TxIds} = {"receiveDelivery", "cancelPurchaseOrder"}
  /\ pre.purchase_orders[id].po_status = "PENDING"

\* C31: a receipt and a cancellation of one PENDING order, run at once,
\* never end with stock added for the order and the order CANCELLED, nor
\* with a cancellation credit posted and the order RECEIVED.
C31_ReceiveCancelExclusive ==
  \A id \in DOMAIN pre.purchase_orders :
    ReceiveAndCancel(id) =>
      LET stockAdded == Len(inventory) > Len(pre.inventory)
          creditPosted == Len(account_ledger) > Len(pre.account_ledger)
          status == purchase_orders[id].po_status
      IN  /\ ~(stockAdded /\ status = "CANCELLED")
          /\ ~(creditPosted /\ status = "RECEIVED")

\* ------------------------------------------- concurrent sales (SpecConc)

\* C1: when two concurrent sale requests for the same product both end and
\* together ask for more than the on-hand stock there was, at least one of
\* them fails (by the claim, with an insufficient-stock error), and the
\* final on-hand stock is not negative.
ConcDone == \A t \in TxIds : tx[t].pc = "done"
OneLineOn(t, p) ==
  Len(tx[t].req.items) = 1 /\ tx[t].req.items[1].productId = p
C1_NoOversell ==
  \A p \in ProductIds :
    ( /\ ConcDone
      /\ \A t \in TxIds : OneLineOn(t, p)
      /\ tx[1].req.items[1].quantity + tx[2].req.items[1].quantity
           > totalOnHand(pre.inventory, p) )
    => /\ \E t \in TxIds : ~tx[t].ok
       /\ totalOnHand(inventory, p) >= 0

\* =================================================================
\* Properties of every reachable state (Spec)
\* =================================================================
RECURSIVE LedgerBalance(_, _, _, _)
\* Sum of debits minus sum of credits over the first k ledger entries of
\* one account.
LedgerBalance(ledger, k, type, id) ==
  IF k = 0 THEN 0
  ELSE LedgerBalance(ledger, k - 1, type, id)
       + (IF ledger[k].account_type = type /\ ledger[k].account_id = id
          THEN ledger[k].debit - ledger[k].credit ELSE 0)

\* C3 (ledger-balance reconciliation): in every reachable state every
\* customer's credit_balance and every supplier's payable_balance equals the
\* sum of debits minus the sum of credits of the account's ledger entries.
C3_Reconciliation ==
  /\ \A c \in CustomerIds :
       customers[c] =
         LedgerBalance(account_ledger, Len(account_ledger), "customer", c)
  /\ \A sp \in SupplierIds :
       suppliers[sp] =
         LedgerBalance(account_ledger, Len(account_ledger), "supplier", sp)

\* C4 (non-negative stock): in every reachable state every inventory batch
\* has current_stock >= 0, whatever the requests (negative quantities too).
C4_NonNegativeStock ==
  \A i \in 1..Len(inventory) : inventory[i].current_stock >= 0

\* =================================================================
\* Properties of one sale (SpecSale)
\* =================================================================
LastSaleOk == last.op = "createSale" /\ last.ok
\* The sale row the last request stored.
StoredSale == sales[Len(sales)]

RECURSIVE LinesTotal(_, _)
\* Sum over the first k stored lines of quantity x unit price.
LinesTotal(details, k) ==
  IF k = 0 THEN 0
  ELSE LinesTotal(details, k - 1) + details[k].quantity * details[k].unit_price

RECURSIVE SoldQuantity(_, _, _)
\* Quantity of product p over the first k line items of a request.
SoldQuantity(items, k, p) ==
  IF k = 0 THEN 0
  ELSE SoldQuantity(items, k - 1, p)
       + (IF items[k].productId = p THEN items[k].quantity ELSE 0)

\* C2 (atomicity of createSale): whenever createSale fails, at whatever
\* step, every table is as it was before the request.
C2_Atomicity ==
  (last.op = "createSale" /\ ~last.ok) => DB = pre

\* A sale that failed for stock at its second line after its first line,
\* a positive quantity in stock, was deducted.
C2_Witness ==
  /\ last.op = "createSale" /\ ~last.ok
  /\ last.error = "InsufficientStock"
  /\ Len(last.req.items) = 2
  /\ last.req.items[1].productId \in ProductIds
  /\ last.req.items[1].quantity >= 1
  /\ last.req.items[1].quantity
       <= totalOnHand(pre.inventory, last.req.items[1].productId)
  /\ DB = pre

\* Every line of the request has a quantity of at least 1.
PositiveLines(req) == \A i \in 1..Len(req.items) : req.items[i].quantity >= 1

\* C7 (sale status rule): every successful createSale (here of positive
\* quantities and an amountPaid >= 0) stores the request's amountPaid, and
\* status PAID if amountPaid >= total, PARTIAL if 0 < amountPaid < total,
\* UNPAID if amountPaid = 0 (below the total).
C7_StatusRule ==
  (LastSaleOk /\ PositiveLines(last.req) /\ last.req.amountPaid >= 0) =>
    LET a == last.req.amountPaid
        total == StoredSale.total_amount
    IN  /\ StoredSale.amount_paid = a
        /\ a >= total => StoredSale.sale_status = "PAID"
        /\ (0 < a /\ a < total) => StoredSale.sale_status = "PARTIAL"
        /\ (a = 0 /\ a < total) => StoredSale.sale_status = "UNPAID"

\* C8 (credit sale posting): a successful createSale with a customer and a
\* status other than PAID appends one customer ledger debit of
\* total - amountPaid and adds it to the customer's credit_balance; and a
\* sale of 3 units at 50 with amountPaid 0 to a customer owing 0 is stored
\* UNPAID and leaves the customer owing 150.
C8_CreditPosting ==
  LastSaleOk /\ last.req.customerId # NULL =>
    LET c == last.req.customerId
        due == StoredSale.total_amount - last.req.amountPaid
    IN  /\ StoredSale.sale_status # "PAID" =>
             /\ customers[c] = pre.customers[c] + due
             /\ account_ledger = Append(pre.account_ledger,
                  [account_type |-> "customer", account_id |-> c,
                   reference_type |-> "SALE", reference_id |-> Len(sales),
                   debit |-> due, credit |-> 0])
        /\ ( /\ last.req.items = << [productId |-> 1, quantity |-> 3,
                                     unitPrice |-> NULL] >>
             /\ last.req.amountPaid = 0
             /\ pre.customers[c] = 0 )
           => (StoredSale.sale_status = "UNPAID" /\ customers[c] = 150)

\* C9 (the total includes the discount): every successful createSale
\* (here of positive quantities) stores total_amount = sum over the lines
\* of quantity x unit price, minus the request's discount.
C9_TotalLessDiscount ==
  (LastSaleOk /\ PositiveLines(last.req)) =>
    StoredSale.total_amount =
      LinesTotal(StoredSale.sale_details, Len(StoredSale.sale_details))
        - last.req.discount

\* C10 (effect of a sale on stock): a successful createSale lowers the total
\* on-hand of every product by the quantity sold of it (so by nothing for a
\* product not sold) and appends one SALE stock-log entry per line item with
\* delta minus the line quantity; a sale of 3 units at 50 with amountPaid
\* 150 is stored PAID with total 150 and leaves 3 units less on hand.
C10_SaleStockEffect ==
  LastSaleOk =>
    /\ ( /\ last.req.items = << [productId |-> 1, quantity |-> 3,
                                 unitPrice |-> NULL] >>
         /\ last.req.amountPaid = 150 )
       => /\ StoredSale.sale_status = "PAID"
          /\ StoredSale.total_amount = 150
          /\ totalOnHand(inventory, 1) = totalOnHand(pre.inventory, 1) - 3
    /\ \A p \in ProductIds :
         totalOnHand(inventory, p) =
           totalOnHand(pre.inventory, p)
             - SoldQuantity(last.req.items, Len(last.req.items), p)
    /\ stock_log = pre.stock_log \o
         [i \in 1..Len(last.req.items) |->
            [product_id |-> last.req.items[i].productId,
             change_type |-> "SALE",
             quantity |-> 0 - last.req.items[i].quantity]]

\* The on-hand stock of every product.
OnHand(inv) == [p \in ProductIds |-> totalOnHand(inv, p)]

RECURSIVE LinesFit(_, _, _)
\* Every line from the k-th on finds at least its quantity on hand, avail
\* being the on-hand stock when line k is processed; a line takes its
\* quantity (nothing when the quantity is not positive).
LinesFit(avail, items, k) ==
  IF k > Len(items) THEN TRUE
  ELSE /\ avail[items[k].productId] >= items[k].quantity
       /\ LinesFit([avail EXCEPT ![items[k].productId] =
                      @ - Max(items[k].quantity, 0)], items, k + 1)

KnownProducts(req) ==
  \A i \in 1..Len(req.items) : req.items[i].productId \in ProductIds

\* C11 (insufficient stock rejects the whole sale): a createSale of known
\* products (for a valid customer or none) succeeds exactly when every line
\* finds, after the deductions of the earlier lines, at least its quantity
\* on hand; otherwise it fails with InsufficientStock and nothing of the
\* sale is committed.
C11_InsufficientStockRejects ==
  (last.op = "createSale" /\ Len(last.req.items) >= 1) =>
    /\ last.ok =>
         /\ KnownProducts(last.req)
         /\ LinesFit(OnHand(pre.inventory), last.req.items, 1)
    /\ ( /\ KnownProducts(last.req)
         /\ last.req.customerId \in CustomerIds \cup {NULL} )
       => IF LinesFit(OnHand(pre.inventory), last.req.items, 1)
          THEN last.ok
          ELSE ~last.ok /\ last.error = "InsufficientStock" /\ DB = pre

\* Two lines of one product, each within the on-hand stock but not both.
C11_Witness ==
  /\ last.op = "createSale" /\ ~last.ok
  /\ last.error = "InsufficientStock"
  /\ Len(last.req.items) = 2
  /\ last.req.items[1].productId = last.req.items[2].productId
  /\ last.req.items[1].productId \in ProductIds
  /\ \A i \in 1..2 :
       /\ last.req.items[i].quantity >= 1
       /\ last.req.items[i].quantity
            <= totalOnHand(pre.inventory, last.req.items[i].productId)
  /\ DB = pre

\* =================================================================
\* Properties of one conversion (SpecConvert)
\* =================================================================
\* quantity_per_case || 1 of the target product.
RatioOf(t) ==
  IF products[t].quantity_per_case # NULL THEN products[t].quantity_per_case
  ELSE 1

\* C15 (conversion conservation): a successful convertBulk of n >= 1 units
\* from a source to a target of ratio r leaves the source product with n
\* units less on hand and the target product with n x r units more, and
\* every other product with what it had; also when source and target are
\* the same product.
C15_ConversionConservation ==
  (last.op = "convertBulk" /\ last.ok /\ last.req.sourceQuantity >= 1) =>
    LET src == last.req.sourceProductId
        tgt == last.req.targetProductId
        n == last.req.sourceQuantity
    IN  /\ totalOnHand(inventory, src) = totalOnHand(pre.inventory, src) - n
        /\ totalOnHand(inventory, tgt) =
             totalOnHand(pre.inventory, tgt) + n * RatioOf(tgt)
        /\ \A p \in ProductIds \ {src, tgt} :
             totalOnHand(inventory, p) = totalOnHand(pre.inventory, p)

\* C16 (conversion without enough source stock): a convertBulk between
\* known products of a quantity above the source's on-hand stock over its
\* active batches fails with InsufficientStock and changes no batch and no
\* stock-log entry.
C16_ConvertInsufficient ==
  ( /\ last.op = "convertBulk"
    /\ last.req.sourceProductId \in ProductIds
    /\ last.req.targetProductId \in ProductIds
    /\ last.req.sourceQuantity
         > totalOnHand(pre.inventory, last.req.sourceProductId) )
  => /\ ~last.ok
     /\ last.error = "InsufficientStock"
     /\ DB = pre

\* A conversion asking more than the active batches of the source hold,
\* though not more than its active and retired batches together.
C16_Witness ==
  /\ last.op = "convertBulk" /\ last.error = "InsufficientStock"
  /\ last.req.targetProductId \in ProductIds
  /\ last.req.sourceQuantity
       > totalOnHand(pre.inventory, last.req.sourceProductId)
  /\ \E i \in 1..Len(pre.inventory) :
       /\ pre.inventory[i].product_id = last.req.sourceProductId
       /\ ~pre.inventory[i].is_active
       /\ last.req.sourceQuantity
            <= totalOnHand(pre.inventory, last.req.sourceProductId)
               + pre.inventory[i].current_stock
  /\ inventory = pre.inventory /\ stock_log = pre.stock_log

\* C37: a successful convertBulk appends exactly two stock-log entries, one
\* on the source product of -sourceQuantity and one on the target product
\* of +sourceQuantity x ratio; a failed convertBulk appends none.
C37_ConversionAudit ==
  last.op = "convertBulk" =>
    IF last.ok
    THEN stock_log = pre.stock_log \o
           << [product_id |-> last.req.sourceProductId,
               change_type |-> "CONVERSION",
               quantity |-> 0 - last.req.sourceQuantity],
              [product_id |-> last.req.targetProductId,
               change_type |-> "CONVERSION",
               quantity |-> last.req.sourceQuantity
                              * RatioOf(last.req.targetProductId)] >>
    ELSE stock_log = pre.stock_log

\* Two units of product 1 become four of product 2.
C37_Witness ==
  /\ last.op = "convertBulk" /\ last.ok
  /\ last.req.sourceProductId # last.req.targetProductId
  /\ last.req.sourceQuantity = 2
  /\ RatioOf(last.req.targetProductId) = 2
  /\ Len(stock_log) = Len(pre.stock_log) + 2
  /\ stock_log[Len(stock_log)].quantity = 4

\* =================================================================
\* Retired batches (Spec)
\* =================================================================
\* C38: once deleteInventory has marked a batch inactive, no later
\* createSale, convertBulk, voidSale, createSupply, deleteSupply,
\* adjustStock or updateInventory changes the batch's quantity or makes it
\* active again.
C38_RetiredFrozen ==
  (/\ prev.last.op = "deleteInventory"
   /\ prev.last.ok
   /\ last.op \in {"createSale", "convertBulk", "voidSale", "createSupply",
                   "deleteSupply", "adjustStock", "updateInventory"}
   /\ ~NotPositiveIn(last)) =>
    LET batch == prev.last.req.id IN
    /\ ~inventory[batch].is_active
    /\ inventory[batch].current_stock = pre.inventory[batch].current_stock

\* =================================================================
\* Properties of voiding (Spec)
\* =================================================================
\* C12 (void twice): voidSale on a sale that is already inactive fails with
\* the already-voided error and leaves every batch, the stock log, the
\* ledger and the customer balances as they were.
C12_VoidInactive ==
  ( /\ last.op = "voidSale"
    /\ last.req.id \in DOMAIN pre.sales
    /\ ~pre.sales[last.req.id].is_active )
  => /\ ~last.ok
     /\ last.error = "AlreadyVoided"
     /\ DB = pre

\* A sale is voided and then voided again.
C12_Witness ==
  /\ last.op = "voidSale" /\ last.error = "AlreadyVoided"
  /\ prev.last.op = "voidSale" /\ prev.last.ok
  /\ prev.last.req.id = last.req.id
  /\ DB = pre

\* The last request voided the sale that the request before it created.
SaleThenVoid ==
  /\ last.op = "voidSale" /\ last.ok
  /\ prev.last.op = "createSale" /\ prev.last.ok
  /\ last.req.id = Len(pre.sales)

\* C13 (void reverses a sale): when a sale is created and voided by the next
\* request, every product's on-hand stock and every customer's
\* credit_balance are what they were before the sale, a ledger credit equal
\* to the debit the sale posted is appended, one RETURN stock-log entry is
\* appended per line item, and the sale is inactive.
C13_VoidReverses ==
  SaleThenVoid =>
    LET before == prev.db
        sale == pre.sales[last.req.id]
        n == Len(sale.sale_details)
    IN  /\ \A p \in ProductIds :
             totalOnHand(inventory, p) = totalOnHand(before.inventory, p)
        /\ customers = before.customers
        /\ Len(pre.account_ledger) > Len(before.account_ledger) =>
             /\ Len(account_ledger) = Len(pre.account_ledger) + 1
             /\ account_ledger[Len(account_ledger)].credit =
                  pre.account_ledger[Len(pre.account_ledger)].debit
             /\ account_ledger[Len(account_ledger)].debit = 0
             /\ account_ledger[Len(account_ledger)].account_id =
                  sale.customer_id
        /\ stock_log = pre.stock_log \o
             [i \in 1..n |->
                [product_id |-> sale.sale_details[i].product_id,
                 change_type |-> "RETURN",
                 quantity |-> sale.sale_details[i].quantity]]
        /\ ~sales[last.req.id].is_active

\* C14 (voiding is irreversible and non-destructive): no request removes a
\* sale record or changes its line items, and a sale that is inactive stays
\* inactive.
C14_VoidIrreversible ==
  [][\A id \in DOMAIN sales :
       /\ id \in DOMAIN sales'
       /\ sales'[id].sale_details = sales[id].sale_details
       /\ ~sales[id].is_active => ~sales'[id].is_active]_vars

\* A sale voided by one request is still there, inactive, after the next
\* request succeeded.
C14_Witness ==
  /\ prev.last.op = "voidSale" /\ prev.last.ok
  /\ last.op # "none" /\ last.ok
  /\ ~pre.sales[prev.last.req.id].is_active
  /\ ~sales[prev.last.req.id].is_active

\* =================================================================
\* Properties of the logs (Spec)
\* =================================================================
\* C18 (append-only logs): every request leaves the existing stock-log and
\* account-ledger entries in place with their fields, and at most appends
\* entries after them.
C18_AppendOnly ==
  [][/\ Len(stock_log') >= Len(stock_log)
     /\ SubSeq(stock_log', 1, Len(stock_log)) = stock_log
     /\ Len(account_ledger') >= Len(account_ledger)
     /\ SubSeq(account_ledger', 1, Len(account_ledger)) = account_ledger]_vars

\* A void appended to a stock log and a ledger that already had entries.
C18_Witness ==
  /\ last.op = "voidSale" /\ last.ok
  /\ Len(pre.stock_log) >= 1 /\ Len(pre.account_ledger) >= 1
  /\ Len(stock_log) > Len(pre.stock_log)
  /\ Len(account_ledger) > Len(pre.account_ledger)
  /\ SubSeq(stock_log, 1, Len(pre.stock_log)) = pre.stock_log
  /\ SubSeq(account_ledger, 1, Len(pre.account_ledger)) = pre.account_ledger

RECURSIVE LogSum(_, _, _)
\* Signed sum of the quantities of the first k stock-log entries of a product.
LogSum(log, k, p) ==
  IF k = 0 THEN 0
  ELSE LogSum(log, k - 1, p)
       + (IF log[k].product_id = p THEN log[k].quantity ELSE 0)

\* C17 (audit trail and live stock never diverge): a successful
\* deleteSupply (of a supply of positive quantities), updateInventory or
\* adjustStock changes every product's on-hand stock over active batches by
\* the signed sum of the stock-log entries it appends for the product.
C17_AuditTrail ==
  ( /\ last.ok
    /\ last.op \in {"deleteSupply", "updateInventory", "adjustStock"}
    /\ last.op = "deleteSupply" =>
         \A i \in 1..Len(pre.supply[last.req.id].supply_details) :
           pre.supply[last.req.id].supply_details[i].unit_quantity >= 1 )
  => \A p \in ProductIds :
       totalOnHand(inventory, p) - totalOnHand(pre.inventory, p)
         = LogSum(stock_log, Len(stock_log), p)
           - LogSum(pre.stock_log, Len(pre.stock_log), p)

\* =================================================================
\* Properties of payments (Spec)
\* =================================================================
\* The smaller of a payment and a balance.
Clamped(a, b) == IF a <= b THEN a ELSE b

\* C19 (payment clamping): a payment of a > 0 on a customer or supplier of
\* balance b is never rejected; it leaves the balance at b - min(a, b) and
\* appends one ledger credit of min(a, b) for the account.
C19_PaymentClamping ==
  /\ ( /\ last.op = "recordCustomerPayment"
       /\ last.req.id \in CustomerIds /\ last.req.amount > 0 )
     => LET paid == Clamped(last.req.amount, pre.customers[last.req.id])
        IN  /\ last.ok
            /\ customers = [pre.customers EXCEPT ![last.req.id] = @ - paid]
            /\ suppliers = pre.suppliers
            /\ account_ledger = Append(pre.account_ledger,
                 [account_type |-> "customer", account_id |-> last.req.id,
                  reference_type |-> "PAYMENT", reference_id |-> NULL,
                  debit |-> 0, credit |-> paid])
  /\ ( /\ last.op = "recordSupplierPayment"
       /\ last.req.id \in SupplierIds /\ last.req.amount > 0 )
     => LET paid == Clamped(last.req.amount, pre.suppliers[last.req.id])
        IN  /\ last.ok
            /\ suppliers = [pre.suppliers EXCEPT ![last.req.id] = @ - paid]
            /\ customers = pre.customers
            /\ account_ledger = Append(pre.account_ledger,
                 [account_type |-> "supplier", account_id |-> last.req.id,
                  reference_type |-> "PAYMENT", reference_id |-> NULL,
                  debit |-> 0, credit |-> paid])

\* A customer owing something pays more than that and owes nothing.
C19_Witness ==
  /\ last.op = "recordCustomerPayment" /\ last.ok
  /\ pre.customers[last.req.id] > 0
  /\ last.req.amount > pre.customers[last.req.id]
  /\ customers[last.req.id] = 0
  /\ account_ledger[Len(account_ledger)].credit = pre.customers[last.req.id]

\* ---------------------------------- concurrent payments (SpecPay)
\* C20 (no lost update on account balances): when the concurrent payments
\* of a customer (next to a sale on credit, when there is one) have all
\* committed, the customer's credit_balance is the initial balance plus
\* the posted debits minus the posted credits, that is, the signed sum of
\* the customer's ledger entries.
C20_NoLostUpdate ==
  (\A t \in TxIds : tx[t].pc = "done" /\ tx[t].ok) =>
    customers[1] =
      LedgerBalance(account_ledger, Len(account_ledger), "customer", 1)

\* =================================================================
\* Properties of one FIFO allocation (SpecFifo)
\* =================================================================
\* The product and the quantity of the last allocation.
AllocOk == last.op \in {"createSale", "convertBulk"} /\ last.ok
AllocProduct ==
  IF last.op = "createSale" THEN last.req.items[1].productId
  ELSE last.req.sourceProductId
AllocQuantity ==
  IF last.op = "createSale" THEN last.req.items[1].quantity
  ELSE last.req.sourceQuantity

ActiveBatches(inv, p) ==
  { i \in 1..Len(inv) : inv[i].product_id = p /\ inv[i].is_active }

\* The product's active batches are three, with expirations E1 < E2 < E3.
ThreeDated(inv, p) ==
  /\ Cardinality(ActiveBatches(inv, p)) = 3
  /\ \A i \in ActiveBatches(inv, p) : inv[i].expiration_date # NULL
  /\ \A i, j \in ActiveBatches(inv, p) :
       i # j => inv[i].expiration_date # inv[j].expiration_date

\* The k-th of the product's active batches by expiration date.
Earliest(inv, p, k) ==
  CHOOSE i \in ActiveBatches(inv, p) :
    Cardinality({ j \in ActiveBatches(inv, p) :
                    inv[j].expiration_date < inv[i].expiration_date }) = k - 1

\* C5 (FIFO correctness): with active batches E1 < E2 < E3, a sale or a
\* conversion of a quantity the E1 batch satisfies changes no batch but E1,
\* which loses the quantity; a quantity above E1 that fits in E1 + E2
\* empties E1, takes the rest from E2 and leaves E3 untouched.
C5_Fifo ==
  (AllocOk /\ ThreeDated(pre.inventory, AllocProduct)) =>
    LET q == AllocQuantity
        e1 == Earliest(pre.inventory, AllocProduct, 1)
        e2 == Earliest(pre.inventory, AllocProduct, 2)
        e3 == Earliest(pre.inventory, AllocProduct, 3)
        s1 == pre.inventory[e1].current_stock
        s2 == pre.inventory[e2].current_stock
        s3 == pre.inventory[e3].current_stock
    IN  /\ q <= s1 =>
             /\ q >= 1 => inventory[e1].current_stock = s1 - q
             /\ inventory[e2].current_stock = s2
             /\ inventory[e3].current_stock = s3
        /\ (s1 < q /\ q <= s1 + s2) =>
             /\ inventory[e1].current_stock = 0
             /\ inventory[e2].current_stock = s2 - (q - s1)
             /\ inventory[e3].current_stock = s3

\* A sale spanning E1 and E2 where the earliest batch is not the first row.
C5_Witness ==
  /\ last.op = "createSale" /\ last.ok
  /\ ThreeDated(pre.inventory, 1)
  /\ LET e1 == Earliest(pre.inventory, 1, 1)
         e2 == Earliest(pre.inventory, 1, 2)
         e3 == Earliest(pre.inventory, 1, 3)
     IN  /\ e1 = 3 /\ e2 = 1
         /\ pre.inventory[e1].current_stock >= 1
         /\ pre.inventory[e3].current_stock >= 1
         /\ AllocQuantity > pre.inventory[e1].current_stock
         /\ AllocQuantity <= pre.inventory[e1].current_stock
                             + pre.inventory[e2].current_stock
         /\ inventory[e1].current_stock = 0
         /\ inventory[e3].current_stock = pre.inventory[e3].current_stock

\* C6 (batches without expiration are consumed last): when a sale or a
\* conversion takes stock from an active batch without expiration date,
\* every dated active batch of the product that had stock is empty.
C6_NoExpirationLast ==
  AllocOk =>
    \A i \in ActiveBatches(pre.inventory, AllocProduct) :
      ( /\ pre.inventory[i].expiration_date = NULL
        /\ inventory[i].current_stock < pre.inventory[i].current_stock )
      => \A j \in ActiveBatches(pre.inventory, AllocProduct) :
           pre.inventory[j].expiration_date # NULL
             => inventory[j].current_stock <= 0

====
